---------------------------- MODULE Spec2Model ----------------------------
(* Maintenance scripts of the NaarsCars iOS project: scripts that patch   *)
(* the Xcode project manifest (project.pbxproj) and the script that       *)
(* augments the localization catalog (Localizable.xcstrings).             *)
(*                                                                        *)
(* The manifest is modelled as the sequence of its lines.  A line is a    *)
(* record of the tokens the scripts' regular expressions look at:         *)
(*   k    the kind of line (section marker, declaration, list header,     *)
(*        list member, list close, ...)                                   *)
(*   id   the 24-hex identifier the line starts with (0: none)            *)
(*   name the file name in the line's comment, a sequence of characters   *)
(*        ending in its extension (<<>>: none)                            *)
(*   ref  the fileRef identifier of a PBXBuildFile entry (0: none)        *)
(*   ph   the build phase named in the comment "<name> in <ph>"           *)
(*   grp  the group name in the comment of a group header or tail         *)
(*   ind  the number of tabs the line is indented by                      *)
EXTENDS Integers, Sequences, FiniteSets, TLC

VARIABLES disk,     \* the manifest file on disk (sequence of lines)
          orig,     \* the file (manifest or catalog) as it was before the last run
          hist,     \* the runs so far, oldest first (script and arguments)
          catalog,  \* the localization catalog on disk
          data,     \* update_localizations.py: the catalog in memory
          todo,     \* update_localizations.py: the entry the loop visits next
          lpc,      \* update_localizations.py: position in the script
          fs,       \* the files that exist in the working tree (their names)
          procs     \* the script runs under way: position and memory of each

vars == <<disk, orig, hist, catalog, data, todo, lpc, fs, procs>>

manifestVars == <<disk, orig, hist>>
locVars == <<catalog, data, todo, lpc>>
envVars == <<fs, procs>>

-----------------------------------------------------------------------------
(* Bounds *)

\* number of script runs in one behaviour
MaxRuns == 2
\* files registered in an initial manifest
MaxFiles == 2
\* string keys of an initial catalog
MaxKeys == 2

-----------------------------------------------------------------------------
(* Sequences *)

Last(s) == s[Len(s)]

RECURSIVE SelectLines(_, _)
\* the subsequence of the lines of s that are in set keep
SelectLines(s, keep) ==
    IF s = <<>> THEN <<>>
    ELSE (IF Head(s) \in keep THEN <<Head(s)>> ELSE <<>>) \o SelectLines(Tail(s), keep)

RECURSIVE DropLines(_, _)
\* s without the lines that are in set drop
DropLines(s, drop) ==
    IF s = <<>> THEN <<>>
    ELSE (IF Head(s) \in drop THEN <<>> ELSE <<Head(s)>>) \o DropLines(Tail(s), drop)

\* Python's `a in b` on strings: a occurs as a contiguous part of b
Occurs(a, b) ==
    \E i \in 1..(Len(b) - Len(a) + 1) : SubSeq(b, i, i + Len(a) - 1) = a

\* s with line new put right after position i
InsertAfter(s, i, new) == SubSeq(s, 1, i) \o <<new>> \o SubSeq(s, i + 1, Len(s))

\* the least position of a set of positions (the first match), 0 when there is none
FirstOf(S) == IF S = {} THEN 0 ELSE CHOOSE i \in S : \A j \in S : i <= j

-----------------------------------------------------------------------------
(* Lines of the manifest *)

NoName == <<>>

Line(k, id, name, ref, ph, grp, ind) ==
    [k |-> k, id |-> id, name |-> name, ref |-> ref, ph |-> ph, grp |-> grp, ind |-> ind]

\* "/* Begin PBXBuildFile section */" and the other section markers
Marker(k) == Line(k, 0, NoName, 0, "", "", 0)

\* "\t\t<id> /* <name> in <ph> */ = {isa = PBXBuildFile; fileRef = <ref> /* <name> */; };"
BuildFileEntry(id, name, ref, ph) == Line("bf", id, name, ref, ph, "", 2)

\* "\t\t<id> /* <name> */ = {isa = PBXFileReference; ... path = <name>; ... };"
FileRefEntry(id, name) == Line("fr", id, name, 0, "", "", 2)

\* "\t\t<id> /* <grp> */ = {" "isa = PBXGroup;" "children = ("
GroupHead(id, grp) == Line("grp", id, NoName, 0, "", grp, 2)

\* "\t\t\t\t<id> /* <name> */," in a children list
ChildEntry(id, name, ind) == Line("child", id, name, 0, "", "", ind)

\* ");" closing a children or files list
ListClose(ind) == Line("close", 0, NoName, 0, "", "", ind)

\* "path = <grp>;" "sourceTree = ...;" "};" after a children list
GroupTail(grp) == Line("gtail", 0, NoName, 0, "", grp, 3)

\* "\t\t<id> /* Sources */ = {" "isa = PBXSourcesBuildPhase;" ... "files = ("
PhaseHead(id, ph) == Line("phase", id, NoName, 0, ph, "", 2)

\* "\t\t\t\t<id> /* <name> in <ph> */," in a files list
MemberEntry(id, name, ph, ind) == Line("mem", id, name, 0, ph, "", ind)

\* "runOnlyForDeploymentPostprocessing = 0;" "};" after a files list
PhaseTail == Line("ptail", 0, NoName, 0, "", "", 3)

\* Python's `file_name in content`: the name occurs somewhere in the text
NameInContent(file_name, content) ==
    \E i \in 1..Len(content) : Occurs(file_name, content[i].name)

\* the PBXFileReference / PBXBuildFile entries of a manifest for a file name
FileRefEntries(content, file_name) ==
    {i \in 1..Len(content) : content[i].k = "fr" /\ content[i].name = file_name}

BuildFileEntries(content, file_name) ==
    {i \in 1..Len(content) : content[i].k = "bf" /\ content[i].name = file_name}

-----------------------------------------------------------------------------
(* Initial manifests *)

\* file names: a stem over a small alphabet and the extension
Swift(stem) == stem \o <<".swift">>
Png(stem) == stem \o <<".png">>

\* A.swift, B.swift and BA.swift, which contains A.swift as a substring
SwiftNames == {Swift(<<"A">>), Swift(<<"B">>), Swift(<<"B", "A">>)}

GroupNames == {"Map", "Views"}

\* ACDCBDC42F0B74F400956D1C, the main target's Sources build phase
MainSourcesId == 101

\* what an initial manifest holds: which sections exist, and the registered files
Flags == [bf : BOOLEAN, fr : BOOLEAN, grp : BOOLEAN, src : BOOLEAN]
AllSections == [bf |-> TRUE, fr |-> TRUE, grp |-> TRUE, src |-> TRUE]

\* the i-th registered file has identifiers drawn apart from all others
FrId(i) == 10 + 2 * i
BfId(i) == 11 + 2 * i

\* a registration: the file, the phase its build file is in, whether the
\* group lists it and whether the build phase lists it
Reg(name, ph, inGroup, inPhase) ==
    [name |-> name, ph |-> ph, inGroup |-> inGroup, inPhase |-> inPhase]

RECURSIVE RegLines(_, _, _)
\* the lines of kind k for registrations regs, the first one numbered i
RegLines(k, regs, i) ==
    IF regs = <<>> THEN <<>>
    ELSE LET r == Head(regs)
             line == CASE k = "bf" -> <<BuildFileEntry(BfId(i), r.name, FrId(i), r.ph)>>
                       [] k = "fr" -> <<FileRefEntry(FrId(i), r.name)>>
                       [] k = "child" -> IF r.inGroup
                                         THEN <<ChildEntry(FrId(i), r.name, 4)>> ELSE <<>>
                       [] k = "mem" -> IF r.inPhase /\ r.ph = "Sources"
                                       THEN <<MemberEntry(BfId(i), r.name, r.ph, 4)>> ELSE <<>>
         IN line \o RegLines(k, Tail(regs), i + 1)

\* a manifest with the sections of flags f, the registrations regs and one group
\* named g; closeInd is the indentation of the ");" lines (3 as Xcode writes them)
ManifestOf(f, regs, closeInd, g) ==
       (IF f.bf THEN <<Marker("BeginBF")>> \o RegLines("bf", regs, 1) \o <<Marker("EndBF")>>
        ELSE <<>>)
    \o (IF f.fr THEN <<Marker("BeginFR")>> \o RegLines("fr", regs, 1) \o <<Marker("EndFR")>>
        ELSE <<>>)
    \o (IF f.grp THEN <<GroupHead(102, g)>> \o RegLines("child", regs, 1)
                      \o <<ListClose(closeInd), GroupTail(g)>>
        ELSE <<>>)
    \o (IF f.src THEN <<PhaseHead(MainSourcesId, "Sources")>> \o RegLines("mem", regs, 1)
                      \o <<ListClose(closeInd), PhaseTail>>
        ELSE <<>>)

Manifest(f, regs, closeInd) == ManifestOf(f, regs, closeInd, "Map")

\* sequences of at most n elements of S
SeqUpTo(S, n) == UNION {[1..m -> S] : m \in 0..n}

\* the record of a run: the script, its arguments, the identifiers it put into
\* the file it wrote (0 when it wrote nothing) and what it returned
Run(op, file, group, fref, bref, r) ==
    [op |-> op, file |-> file, group |-> group,
     fref |-> IF r.wrote THEN fref ELSE 0, bref |-> IF r.wrote THEN bref ELSE 0,
     wrote |-> r.wrote, ret |-> r.ret,
     exit |-> IF "exit" \in DOMAIN r THEN r.exit ELSE "ok"]

\* NaarsCars.xcodeproj/project.pbxproj
PROJECT_FILE == "project.pbxproj"

\* a run that ended before it did anything: why it ended
Ended(exit) == [content |-> <<>>, wrote |-> FALSE, ret |-> FALSE, exit |-> exit]

\* an open that does not fail when the file is missing (as mode 'a+' would not)
OpenToReadOrCreate(files, r) == r

\* `with open(PROJECT_FILE, 'r') as f: content = f.read()`, then the rest of the
\* run r: open raises FileNotFoundError when the file does not exist
OpenToRead(files, r) == IF PROJECT_FILE \in files THEN r ELSE Ended("FileNotFoundError")

\* `if not os.path.exists(project_file): print(...); exit(1)`, then the run r
ProjectFileExists(files, r) == IF PROJECT_FILE \in files THEN r ELSE Ended("exit(1)")

\* `with open(PROJECT_FILE, 'w') as f: f.write(content)` when the run r gets there:
\* mode 'w' creates the file when it does not exist
WriteBack(r) ==
    /\ disk' = IF r.wrote THEN r.content ELSE disk
    /\ fs' = IF r.wrote THEN fs \cup {PROJECT_FILE} ELSE fs

\* update_localizations.py is not running, the manifest exists, no run is under way
LocIdle ==
    /\ catalog = <<>>
    /\ data = <<>>
    /\ todo = 0
    /\ lpc = "idle"
    /\ fs = {PROJECT_FILE}
    /\ procs = <<>>

-----------------------------------------------------------------------------
(* add_file.py and add-single-file.py *)

\* the identifiers that occur in a text
IdsIn(content) ==
    {content[i].id : i \in 1..Len(content)} \cup {content[i].ref : i \in 1..Len(content)}

\* the n-th smallest identifier that does not occur in the text
UnusedId(content, n) ==
    LET ids == IdsIn(content)
    IN CHOOSE x \in 1..(Cardinality(ids) + n) :
          x \notin ids /\ Cardinality({y \in 1..x : y \notin ids}) = n

\* generate_uuid(), the n-th call of a run: uuid4 returns any token, which is
\* either one no line of the manifest and no earlier call of the run has (all such
\* tokens behave alike, so the n-th unused number stands for them) or, with
\* negligible but non-zero probability, one drawn before (the first build file's)
generate_uuid(content, n) == {UnusedId(content, n), BfId(1)}

\* the section pattern matching nowhere: nothing is inserted
InsertAfterNone(s, k, new) == s

RECURSIVE InsertAfterAll(_, _, _)
\* re.sub without count: the entry is put after every line of kind k
InsertAfterAll(s, k, new) ==
    IF s = <<>> THEN <<>>
    ELSE (IF Head(s).k = k THEN <<Head(s), new>> ELSE <<Head(s)>>)
         \o InsertAfterAll(Tail(s), k, new)

\* the first line of kind k (a section marker), 0 when there is none
FirstMarker(s, k) == FirstOf({i \in 1..Len(s) : s[i].k = k})

\* the first "/* <g> */ = {[^}]*children = (\n" of the text
FirstGroupHead(s, g) == FirstOf({i \in 1..Len(s) : s[i].k = "grp" /\ s[i].grp = g})

\* the first "/* Sources */ = {[^}]*isa = PBXSourcesBuildPhase[^}]*files = (\n"
FirstSourcesHead(s) == FirstOf({i \in 1..Len(s) : s[i].k = "phase" /\ s[i].ph = "Sources"})

\* the text as it is, the line left out
NotInserted(s, i, new) == s

\* re.search + slicing, or re.sub with count=1: the entry goes after position i
InsertAfterFirst(s, i, new) == IF i = 0 THEN s ELSE InsertAfter(s, i, new)

\* the group lookup of add_file_to_project, dropped
GroupFoundAlways(content, group_name) == TRUE

\* re.search(group_pattern, content)
GroupFound(content, group_name) == FirstGroupHead(content, group_name) # 0

\* the "already in project" test, dropped
AlreadyInProjectNever(file_name, content) == FALSE

\* `if file_name in content`
AlreadyInProject(file_name, content) == NameInContent(file_name, content)

\* the group substitution with match.group(2) forgotten: the first child is lost
AddToGroupDropping(content, group_name, file_ref_uuid, file_name) ==
    LET i == FirstGroupHead(content, group_name)
    IN IF i = 0 THEN content
       ELSE SubSeq(content, 1, i) \o <<ChildEntry(file_ref_uuid, file_name, 4)>>
            \o SubSeq(content, i + 2, Len(content))

\* re.sub(group_pattern, add_to_group, content, count=1)
AddToGroup(content, group_name, file_ref_uuid, file_name) ==
    InsertAfterFirst(content, FirstGroupHead(content, group_name),
                     ChildEntry(file_ref_uuid, file_name, 4))

\* re.sub(sources_pattern, add_to_sources, content, count=1)
AddToSources(content, build_file_uuid, file_name) ==
    InsertAfterFirst(content, FirstSourcesHead(content),
                     MemberEntry(build_file_uuid, file_name, "Sources", 4))

\* add_file_to_project: the text it ends with, whether it wrote it, what it returns
add_file_to_project(content, file_name, group_name, file_ref_uuid, build_file_uuid) ==
    IF AlreadyInProject(file_name, content)
    THEN [content |-> content, wrote |-> FALSE, ret |-> FALSE]
    ELSE LET c1 == InsertAfterAll(content, "BeginBF",
                       BuildFileEntry(build_file_uuid, file_name, file_ref_uuid, "Sources"))
             c2 == InsertAfterAll(c1, "BeginFR", FileRefEntry(file_ref_uuid, file_name))
         IN IF ~GroupFound(c2, group_name)
            THEN [content |-> c2, wrote |-> FALSE, ret |-> FALSE]
            ELSE [content |-> AddToSources(AddToGroup(c2, group_name, file_ref_uuid, file_name),
                                           build_file_uuid, file_name),
                  wrote |-> TRUE, ret |-> TRUE]

\* one run of add_file.py
AddFile ==
    /\ Len(hist) < MaxRuns
    /\ \E file_name \in SwiftNames, group_name \in GroupNames,
          file_ref_uuid \in generate_uuid(disk, 1), build_file_uuid \in generate_uuid(disk, 2) :
          LET r == OpenToRead(fs, add_file_to_project(disk, file_name, group_name,
                                                      file_ref_uuid, build_file_uuid))
          IN /\ WriteBack(r)
             /\ orig' = disk
             /\ hist' = Append(hist, Run("add_file", file_name, group_name,
                                          file_ref_uuid, build_file_uuid, r))
    /\ UNCHANGED <<locVars, procs>>

\* add-single-file.py: FILE_NAME and GROUP_NAME
FILE_NAME == Swift(<<"A">>)
GROUP_NAME == "Map"

\* [^)]+ between "(\n" and ");": an empty list whose ");" is at column 0 does not match
NonEmptyList(content, i) == ~(content[i + 1].k = "close" /\ content[i + 1].ind = 0)

\* add-single-file.py main(): the text it writes
add_single_file(content, file_ref_uuid, build_file_uuid) ==
    IF NameInContent(FILE_NAME, content)
    THEN [content |-> content, wrote |-> FALSE, ret |-> FALSE]
    ELSE LET c1 == InsertAfterFirst(content, FirstMarker(content, "BeginBF"),
                       BuildFileEntry(build_file_uuid, FILE_NAME, file_ref_uuid, "Sources"))
             c2 == InsertAfterFirst(c1, FirstMarker(c1, "BeginFR"),
                       FileRefEntry(file_ref_uuid, FILE_NAME))
             g == FirstGroupHead(c2, GROUP_NAME)
             c3 == IF g # 0 /\ NonEmptyList(c2, g)
                   THEN InsertAfter(c2, g, ChildEntry(file_ref_uuid, FILE_NAME, 4)) ELSE c2
             p == FirstSourcesHead(c3)
             c4 == IF p # 0 /\ NonEmptyList(c3, p)
                   THEN InsertAfter(c3, p, MemberEntry(build_file_uuid, FILE_NAME, "Sources", 4))
                   ELSE c3
         IN [content |-> c4, wrote |-> TRUE, ret |-> TRUE]

\* one run of add-single-file.py
AddSingleFile ==
    /\ Len(hist) < MaxRuns
    /\ \E file_ref_uuid \in generate_uuid(disk, 1), build_file_uuid \in generate_uuid(disk, 2) :
          LET r == OpenToRead(fs, add_single_file(disk, file_ref_uuid, build_file_uuid))
          IN /\ WriteBack(r)
             /\ orig' = disk
             /\ hist' = Append(hist, Run("add_single", FILE_NAME, GROUP_NAME,
                                          file_ref_uuid, build_file_uuid, r))
    /\ UNCHANGED <<locVars, procs>>

\* manifests the add-file scripts are run on: any subset of the four sections,
\* and up to MaxFiles - 1 files registered already
InitAdd ==
    /\ \E f \in Flags, names \in SeqUpTo(SwiftNames, MaxFiles - 1) :
          disk = Manifest(f, [i \in 1..Len(names) |-> Reg(names[i], "Sources", TRUE, TRUE)], 3)
    /\ orig = disk
    /\ hist = <<>>
    /\ LocIdle

NextAdd == AddFile \/ AddSingleFile

SpecAdd == InitAdd /\ [][NextAdd]_vars

-----------------------------------------------------------------------------
(* Two runs of add_file.py on one manifest, each a read step and a write step *)

\* the file keeps what it held
NotWritten(old, content) == old

\* f.write(content) on the file opened with 'w': the file holds content and nothing else
Overwritten(old, content) == content

\* a run of add_file.py that has not read the manifest yet; n is its place among the
\* writes, after tells whether the other run had ended when this one read
AddProcess(file_name, group_name) ==
    [op |-> "add_file", pc |-> "start", file |-> file_name, group |-> group_name,
     new_content |-> <<>>, wrote |-> FALSE, n |-> 0, after |-> FALSE]

\* f.read() and the insertions, in memory
AddFileRead ==
    \E i \in 1..Len(procs) :
        /\ procs[i].pc = "start"
        /\ \E file_ref_uuid \in generate_uuid(disk, 1), build_file_uuid \in generate_uuid(disk, 2) :
              LET r == OpenToRead(fs, add_file_to_project(disk, procs[i].file, procs[i].group,
                                                          file_ref_uuid, build_file_uuid))
              IN  procs' = [procs EXCEPT ![i] =
                               [@ EXCEPT !.pc = IF r.wrote THEN "write" ELSE "done",
                                         !.new_content = r.content,
                                         !.wrote = r.wrote,
                                         !.after = \E j \in 1..Len(procs) : procs[j].pc = "done"]]
        /\ UNCHANGED <<disk, orig, hist, locVars, fs>>

\* with open(project_path, 'w') as f: f.write(content)
AddFileWrite ==
    \E i \in 1..Len(procs) :
        /\ procs[i].pc = "write"
        /\ disk' = Overwritten(disk, procs[i].new_content)
        /\ fs' = fs \cup {PROJECT_FILE}
        /\ procs' = [procs EXCEPT ![i] =
                         [@ EXCEPT !.pc = "done",
                                   !.n = 1 + Cardinality({j \in 1..Len(procs) : procs[j].n > 0})]]
        /\ UNCHANGED <<orig, hist, locVars>>

\* two runs for two distinct file names, on the manifests of InitAdd
InitRace ==
    /\ \E f \in Flags, names \in SeqUpTo(SwiftNames, MaxFiles - 1) :
          disk = Manifest(f, [i \in 1..Len(names) |-> Reg(names[i], "Sources", TRUE, TRUE)], 3)
    /\ orig = disk
    /\ hist = <<>>
    /\ catalog = <<>>
    /\ data = <<>>
    /\ todo = 0
    /\ lpc = "idle"
    /\ fs = {PROJECT_FILE}
    /\ \E f1, f2 \in SwiftNames, g1, g2 \in GroupNames :
          /\ f1 # f2
          /\ procs = <<AddProcess(f1, g1), AddProcess(f2, g2)>>

NextRace == AddFileRead \/ AddFileWrite

SpecRace == InitRace /\ [][NextRace]_vars

-----------------------------------------------------------------------------
(* aggressive-dedup.py, deep-clean-duplicates.py, fix-duplicate-sources.py *)

\* "(.+?\.swift) in Sources" matches the comment of the line
SwiftInSources(l) == l.name # NoName /\ Last(l.name) = ".swift" /\ l.ph = "Sources"

\* build_file_pattern: a PBXBuildFile declaration of a Swift source
IsSwiftBuildFile(l) == l.k = "bf" /\ SwiftInSources(l)

\* `'in Sources' in line`
HasInSources(l) == l.k \in {"bf", "mem"} /\ l.ph = "Sources"

\* `uuid in line`
UuidInLine(uuid, l) == uuid # 0 /\ (l.id = uuid \/ l.ref = uuid)

\* build_files_by_name[filename]: the uuids of the matches for a name, in file order
RECURSIVE UuidsByName(_, _)
UuidsByName(content, filename) ==
    IF content = <<>> THEN <<>>
    ELSE (IF IsSwiftBuildFile(Head(content)) /\ Head(content).name = filename
          THEN <<Head(content).id>> ELSE <<>>) \o UuidsByName(Tail(content), filename)

MatchedNames(content) ==
    {content[i].name : i \in {j \in 1..Len(content) : IsSwiftBuildFile(content[j])}}

\* duplicates: the names with more than one build file entry
Duplicates(content) == {n \in MatchedNames(content) : Len(UuidsByName(content, n)) > 1}

\* uuids[:-1]: the last entry is kept instead of the first
AllButLast(uuids) == {uuids[j] : j \in 1..(Len(uuids) - 1)}

\* uuids[1:]
AllButFirst(uuids) == {uuids[j] : j \in 2..Len(uuids)}

\* uuids_to_remove
UuidsToRemove(content) ==
    UNION {AllButFirst(UuidsByName(content, n)) : n \in Duplicates(content)}

\* only the declarations are removed, the files lists keep their references
ShouldRemoveDeclOnly(l, uuids_to_remove) ==
    \E uuid \in uuids_to_remove : UuidInLine(uuid, l) /\ l.k = "bf"

\* should_remove
ShouldRemove(l, uuids_to_remove) ==
    \E uuid \in uuids_to_remove : UuidInLine(uuid, l) /\ HasInSources(l)

\* aggressive-dedup.py main(): the text, and whether it is written
aggressive_dedup(content) ==
    LET uuids_to_remove == UuidsToRemove(content)
        new_lines == SelectSeq(content, LAMBDA l : ~ShouldRemove(l, uuids_to_remove))
        removed == Len(content) - Len(new_lines)
    IN [content |-> new_lines,
        wrote |-> Duplicates(content) # {} /\ removed > 0,
        ret |-> Duplicates(content) # {}]

\* source_match and 'PBXBuildFile' not in line
IsSourceListLine(l) == l.k = "mem" /\ SwiftInSources(l)

RECURSIVE DeepCleanLoop(_, _)
\* the while loop of deep-clean-duplicates.py over the remaining lines
DeepCleanLoop(lines, seen_sources) ==
    IF lines = <<>> THEN <<>>
    ELSE LET line == Head(lines)
         IN IF IsSourceListLine(line)
            THEN IF line.name \in seen_sources
                 THEN DeepCleanLoop(Tail(lines), seen_sources)
                 ELSE <<line>> \o DeepCleanLoop(Tail(lines), seen_sources \cup {line.name})
            ELSE <<line>> \o DeepCleanLoop(Tail(lines), seen_sources)

\* deep-clean-duplicates.py main()
deep_clean_duplicates(lines) ==
    LET new_lines == DeepCleanLoop(lines, {})
    IN [content |-> new_lines, wrote |-> Len(new_lines) < Len(lines), ret |-> TRUE]

\* "\t\t\t\t," : what joining no references leaves between the brackets
StrayComma == Line("comma", 0, NoName, 0, "", "", 4)

RECURSIVE UniqueRefs(_, _)
\* unique_refs: the first reference of every "<name>.swift in Sources", every
\* other reference as it is; each reference stripped and indented anew
UniqueRefs(file_refs, seen_files) ==
    IF file_refs = <<>> THEN <<>>
    ELSE LET ref == Head(file_refs)
             out == [ref EXCEPT !.ind = 4]
         IN IF SwiftInSources(ref)
            THEN IF ref.name \in seen_files
                 THEN UniqueRefs(Tail(file_refs), seen_files)
                 ELSE <<out>> \o UniqueRefs(Tail(file_refs), seen_files \cup {ref.name})
            ELSE <<out>> \o UniqueRefs(Tail(file_refs), seen_files)

\* the position of the first ");" after position i (the end of group 2)
CloseAfter(content, i) == FirstOf({j \in (i + 1)..Len(content) : content[j].k = "close"})

\* dedupe_sources_section: prefix + refs + ",\n\t\t\t" + suffix
DedupedList(file_refs) ==
    LET unique_refs == UniqueRefs(file_refs, {})
    IN (IF unique_refs = <<>> THEN <<StrayComma>> ELSE unique_refs) \o <<ListClose(3)>>

\* no ")" is reported, whatever the list holds
NoParenBetween(content, i, c) == FALSE

\* a ")" in the lines after position i and before position c
ParenBetween(content, i, c) ==
    \E j \in (i + 1)..(c - 1) : \E t \in 1..Len(content[j].name) : content[j].name[t] = ")"

\* ([^)]+)(\);) after "files = (": the list's ");" is the first ")" after its "("
ListMatches(content, i) ==
    CloseAfter(content, i) # 0 /\ ~ParenBetween(content, i, CloseAfter(content, i))

RECURSIVE FixFrom(_, _)
\* re.sub over every "/* Sources */ = {[^}]*files = (" ... ");" from position i on
FixFrom(content, i) ==
    IF i > Len(content) THEN <<>>
    ELSE IF content[i].k = "phase" /\ content[i].ph = "Sources" /\ ListMatches(content, i)
         THEN LET c == CloseAfter(content, i)
              IN <<content[i]>> \o DedupedList(SubSeq(content, i + 1, c - 1))
                 \o FixFrom(content, c + 1)
         ELSE <<content[i]>> \o FixFrom(content, i + 1)

\* fix-duplicate-sources.py main()
fix_duplicate_sources(content) ==
    LET new_content == FixFrom(content, 1)
    IN [content |-> new_content, wrote |-> new_content # content, ret |-> TRUE]

\* one run of a deduplicator script
RunDedup(op, r) ==
    /\ WriteBack(r)
    /\ orig' = disk
    /\ hist' = Append(hist, Run(op, NoName, "", 0, 0, r))
    /\ UNCHANGED <<locVars, procs>>

AggressiveDedup ==
    Len(hist) < MaxRuns /\ RunDedup("aggressive_dedup", OpenToRead(fs, aggressive_dedup(disk)))

DeepCleanDuplicates ==
    Len(hist) < MaxRuns /\ RunDedup("deep_clean", OpenToRead(fs, deep_clean_duplicates(disk)))

FixDuplicateSources ==
    Len(hist) < MaxRuns
        /\ RunDedup("fix_duplicate_sources", OpenToRead(fs, fix_duplicate_sources(disk)))

\* build files of the initial manifests of the deduplicators: Swift sources,
\* listed in the Sources phase or not, and a resource
DedupRegs ==
    {Reg(n, "Sources", TRUE, p) : n \in {Swift(<<"A">>), Swift(<<"B">>)}, p \in BOOLEAN}
        \cup {Reg(Png(<<"A">>), "Resources", TRUE, FALSE)}

\* manifests the deduplicators are run on: up to MaxFiles + 1 registrations, the
\* same file several times among them; the lists closed as Xcode writes them
\* (3 tabs) or as the batch add scripts leave them (column 0)
InitDedup ==
    /\ \E regs \in SeqUpTo(DedupRegs, MaxFiles + 1), closeInd \in {0, 3} :
          disk = Manifest(AllSections, regs, closeInd)
    /\ orig = disk
    /\ hist = <<>>
    /\ LocIdle

NextDedup == AggressiveDedup \/ DeepCleanDuplicates \/ FixDuplicateSources

SpecDedup == InitDedup /\ [][NextDedup]_vars

-----------------------------------------------------------------------------
(* A deduplicator run step by step: read, compute, open for writing, write, end; the *)
(* process may stop at any step                                                    *)

\* the file keeps what it held
OpenForUpdate(content) == content

\* open(PROJECT_FILE, 'w') truncates the file
OpenForWriting(content) == <<>>

\* the file once the first n lines of new_content are written from its start
Written(old, new_content, n) == SubSeq(new_content, 1, n) \o SubSeq(old, n + 1, Len(old))

\* a process: the script, where it is, the text it computed, whether it writes, the
\* number of lines it has written
Process(op, r) ==
    [op |-> op, pc |-> IF r.wrote THEN "open" ELSE "end", new_content |-> r.content,
     wrote |-> r.wrote, n |-> 0]

\* f.read() and the computation of the new text, which touch nothing on disk
DedupRead ==
    /\ procs = <<>>
    /\ \E s \in {<<"aggressive_dedup", aggressive_dedup(disk)>>,
                 <<"deep_clean", deep_clean_duplicates(disk)>>,
                 <<"fix_duplicate_sources", fix_duplicate_sources(disk)>>} :
          procs' = <<Process(s[1], s[2])>>
    /\ orig' = disk
    /\ UNCHANGED <<disk, hist, locVars, fs>>

\* with open(PROJECT_FILE, 'w') as f
DedupOpen ==
    /\ procs # <<>> /\ procs[1].pc = "open"
    /\ disk' = OpenForWriting(disk)
    /\ procs' = [procs EXCEPT ![1].pc = "write"]
    /\ UNCHANGED <<orig, hist, locVars, fs>>

\* f.write(new_content) reaches the disk a part at a time, from the start on
DedupWrite ==
    /\ procs # <<>> /\ procs[1].pc = "write"
    /\ procs[1].n < Len(procs[1].new_content)
    /\ disk' = Written(disk, procs[1].new_content, procs[1].n + 1)
    /\ procs' = [procs EXCEPT ![1].n = @ + 1]
    /\ UNCHANGED <<orig, hist, locVars, fs>>

\* the file is closed (or was never opened) and main returns
DedupEnd ==
    /\ procs # <<>>
    /\ \/ procs[1].pc = "end"
       \/ procs[1].pc = "write" /\ procs[1].n = Len(procs[1].new_content)
    /\ procs' = [procs EXCEPT ![1].pc = "done"]
    /\ hist' = Append(hist, Run(procs[1].op, NoName, "", 0, 0,
                                [content |-> procs[1].new_content, wrote |-> procs[1].wrote,
                                 ret |-> TRUE]))
    /\ UNCHANGED <<disk, orig, locVars, fs>>

\* the process stops between reading the manifest and finishing
DedupCrash ==
    /\ procs # <<>> /\ procs[1].pc \in {"open", "write", "end"}
    /\ procs' = [procs EXCEPT ![1].pc = "crashed"]
    /\ UNCHANGED <<disk, orig, hist, locVars, fs>>

InitCrash == InitDedup

NextCrash == DedupRead \/ DedupOpen \/ DedupWrite \/ DedupEnd \/ DedupCrash

SpecCrash == InitCrash /\ [][NextCrash]_vars

-----------------------------------------------------------------------------
(* add-phase2-files-to-xcode.py, add-profile-files-to-xcode.py,                *)
(* add-all-missing-files-to-xcode.py                                           *)

\* files_to_add / missing_files, abridged to one file under Core/Services and one
\* under a directory none of the group patterns names; test_files_to_add to one file
ServiceFile == [name |-> Swift(<<"A">>), dir |-> "Services"]
ViewFile == [name |-> Swift(<<"B">>), dir |-> "Views"]
TestFile == [name |-> Swift(<<"B", "A">>), dir |-> "Tests"]

\* `<id> in <text>`: the token occurs in one of the lines
IdInText(id, lines) == \E i \in 1..Len(lines) : lines[i].id = id \/ lines[i].ref = id

\* the already-exists test comparing the file name instead of the fresh identifier
NotYetInByName(item, lines) == \A i \in 1..Len(lines) : lines[i].name # item.line.name

\* `if file_id not in file_refs` and its like
NotYetIn(item, lines) == ~IdInText(item.id, lines)

RECURSIVE AppendMissing(_, _, _, _)
\* the loop over the files: text is match.group(1) as lines, tail the indentation
\* that follows its last line break; an entry whose identifier is not in the text
\* is appended, after rstrip() (keepTail FALSE) or with += (keepTail TRUE)
AppendMissing(text, tail, items, keepTail) ==
    IF items = <<>> THEN [text |-> text, tail |-> tail]
    ELSE LET it == Head(items)
         IN IF NotYetIn(it, text)
            THEN AppendMissing(
                     Append(text, [it.line EXCEPT !.ind = IF keepTail THEN tail + @ ELSE @]),
                     0, Tail(items), keepTail)
            ELSE AppendMissing(text, tail, Tail(items), keepTail)

\* a Begin ... End section: the entries are appended before the End marker
AppendToSection(content, beginK, endK, items) ==
    LET b == FirstMarker(content, beginK)
        e == FirstOf({j \in (b + 1)..Len(content) : content[j].k = endK})
    IN IF b = 0 \/ e = 0 THEN content
       ELSE SubSeq(content, 1, b - 1)
            \o AppendMissing(SubSeq(content, b, e - 1), 0, items, FALSE).text
            \o SubSeq(content, e, Len(content))

\* a children or files list that starts at head h: the entries are appended before
\* its ");" , whose indentation is what the loop leaves of the text's tail
AppendToList(content, h, items, keepTail) ==
    LET c == CloseAfter(content, h)
    IN IF h = 0 \/ c = 0 THEN content
       ELSE LET r == AppendMissing(SubSeq(content, h, c - 1), content[c].ind, items, keepTail)
            IN SubSeq(content, 1, h - 1) \o r.text
               \o <<[content[c] EXCEPT !.ind = r.tail]>>
               \o SubSeq(content, c + 1, Len(content))

\* "(/\* <g> \*/.*?children = \(.*?)(\);.*?path = <g>;)": the first head of the name
\* that has its "path = <g>;" somewhere after the list's ");"
BatchGroupHead(content, g) ==
    LET h == FirstGroupHead(content, g)
        c == IF h = 0 THEN 0 ELSE CloseAfter(content, h)
    IN IF c # 0 /\ \E j \in (c + 1)..Len(content) :
                       content[j].k = "gtail" /\ content[j].grp = g
       THEN h ELSE 0

\* "(<id> /\* Sources \*/ = \{.*?files = \(.*?)(\);.*?runOnlyForDeploymentPostprocessing = 0;)"
BatchPhaseHead(content, id) ==
    LET h == FirstOf({i \in 1..Len(content) :
                         content[i].k = "phase" /\ content[i].ph = "Sources" /\ content[i].id = id})
        c == IF h = 0 THEN 0 ELSE CloseAfter(content, h)
    IN IF c # 0 /\ \E j \in (c + 1)..Len(content) : content[j].k = "ptail" THEN h ELSE 0

\* ACDCBDD12F0B74F700956D1C, the test target's Sources build phase
TestSourcesId == 103

\* the entries the scripts build for a file and its identifiers
FileRefItem(f, ids) == [id |-> ids.file_id, line |-> FileRefEntry(ids.file_id, f.name)]
BuildFileItem(f, ids) ==
    [id |-> ids.build_id, line |-> BuildFileEntry(ids.build_id, f.name, ids.file_id, "Sources")]
ChildItem(f, ids) == [id |-> ids.file_id, line |-> ChildEntry(ids.file_id, f.name, 4)]
MemberItem(f, ids) ==
    [id |-> ids.build_id, line |-> MemberEntry(ids.build_id, f.name, "Sources", 4)]

\* the items of kind Item for those of the files whose path passes the test
RECURSIVE Items(_, _, _, _)
Items(kind, files, ids, dirs) ==
    IF files = <<>> THEN <<>>
    ELSE (IF Head(files).dir \in dirs
          THEN <<CASE kind = "fr" -> FileRefItem(Head(files), Head(ids))
                   [] kind = "bf" -> BuildFileItem(Head(files), Head(ids))
                   [] kind = "child" -> ChildItem(Head(files), Head(ids))
                   [] kind = "mem" -> MemberItem(Head(files), Head(ids))>>
          ELSE <<>>) \o Items(kind, Tail(files), Tail(ids), dirs)

AllDirs == {"Services", "Views", "Tests"}

\* add-phase2-files-to-xcode.py: files_to_add with the identifiers drawn for them
add_phase2_files(content, ids) ==
    LET files == <<ServiceFile, ViewFile>>
        c1 == AppendToSection(content, "BeginFR", "EndFR", Items("fr", files, ids, AllDirs))
        c2 == AppendToSection(c1, "BeginBF", "EndBF", Items("bf", files, ids, AllDirs))
        c3 == AppendToList(c2, BatchGroupHead(c2, "Services"),
                           Items("child", files, ids, {"Services"}), FALSE)
        c4 == AppendToList(c3, BatchPhaseHead(c3, MainSourcesId),
                           Items("mem", files, ids, AllDirs), FALSE)
    IN [content |-> c4, wrote |-> TRUE, ret |-> TRUE]

\* add-profile-files-to-xcode.py: files_to_add, then test_files_to_add
add_profile_files(content, ids) ==
    LET files == <<ServiceFile, TestFile>>
        c1 == AppendToSection(content, "BeginFR", "EndFR", Items("fr", files, ids, AllDirs))
        c2 == AppendToSection(c1, "BeginBF", "EndBF", Items("bf", files, ids, AllDirs))
        c3 == AppendToList(c2, BatchGroupHead(c2, "Services"),
                           Items("child", files, ids, {"Services"}), TRUE)
        c4 == AppendToList(c3, BatchPhaseHead(c3, MainSourcesId),
                           Items("mem", files, ids, {"Services", "Views"}), TRUE)
        c5 == AppendToList(c4, BatchPhaseHead(c4, TestSourcesId),
                           Items("mem", files, ids, {"Tests"}), TRUE)
    IN [content |-> c5, wrote |-> TRUE, ret |-> TRUE]

\* add-all-missing-files-to-xcode.py: missing_files
add_all_missing_files(content, ids) ==
    LET files == <<ViewFile, TestFile>>
        c1 == AppendToSection(content, "BeginFR", "EndFR", Items("fr", files, ids, AllDirs))
        c2 == AppendToSection(c1, "BeginBF", "EndBF", Items("bf", files, ids, AllDirs))
        c3 == AppendToList(c2, BatchPhaseHead(c2, MainSourcesId),
                           Items("mem", files, ids, {"Services", "Views"}), FALSE)
        c4 == AppendToList(c3, BatchPhaseHead(c3, TestSourcesId),
                           Items("mem", files, ids, {"Tests"}), FALSE)
    IN [content |-> c4, wrote |-> TRUE, ret |-> TRUE]

\* generate_xcode_id(), called twice for each of the two files of a run
DrawnIds(content) ==
    {<<[file_id |-> a, build_id |-> b], [file_id |-> c, build_id |-> d]>> :
        a \in generate_uuid(content, 1), b \in generate_uuid(content, 2),
        c \in generate_uuid(content, 3), d \in generate_uuid(content, 4)}

RunBatch(op, r) ==
    /\ WriteBack(r)
    /\ orig' = disk
    /\ hist' = Append(hist, Run(op, NoName, "", 0, 0, r))
    /\ UNCHANGED <<locVars, procs>>

AddPhase2Files ==
    /\ Len(hist) < MaxRuns
    /\ \E ids \in DrawnIds(disk) :
          RunBatch("add_phase2", OpenToRead(fs, add_phase2_files(disk, ids)))

AddProfileFiles ==
    /\ Len(hist) < MaxRuns
    /\ \E ids \in DrawnIds(disk) :
          RunBatch("add_profile", ProjectFileExists(fs, add_profile_files(disk, ids)))

AddAllMissingFiles ==
    /\ Len(hist) < MaxRuns
    /\ \E ids \in DrawnIds(disk) :
          RunBatch("add_all_missing", OpenToRead(fs, add_all_missing_files(disk, ids)))

\* all four sections, or all but one
BatchFlags == {f \in Flags : Cardinality({x \in DOMAIN f : ~f[x]}) <= 1}

\* manifests the batch scripts are run on: with all sections or all but one, a
\* Services group, up to MaxFiles - 1 files registered already
InitBatch ==
    /\ \E f \in BatchFlags, names \in SeqUpTo({Swift(<<"B", "B">>)}, MaxFiles - 1) :
          disk = ManifestOf(f, [i \in 1..Len(names) |-> Reg(names[i], "Sources", TRUE, TRUE)],
                            3, "Services")
    /\ orig = disk
    /\ hist = <<>>
    /\ LocIdle

NextBatch == AddPhase2Files \/ AddProfileFiles \/ AddAllMissingFiles

SpecBatch == InitBatch /\ [][NextBatch]_vars

-----------------------------------------------------------------------------
(* add-navigation-files.py and add_prompts_files.py: hard-coded identifiers *)

\* ACDCBDF22F0B779600956D1C, the App group
AppGroupId == 102
\* ACDCBDF32F0B77A600956D1C, the Features group of the app
FeaturesGroupId == 104
\* AC8197BA2F14C2C1003BB08B, the Reviews group
ReviewsGroupId == 105
\* ACDCBE162F0B799D00956D1C, the Features group of the tests
TestFeaturesGroupId == 106
\* ACDCBE192F0B79BD00956D1C, the Profile group of the tests
TestProfileGroupId == 107
\* ACDCBDD42F0B74F700956D1C, the NaarsCarsTests target
NaarsCarsTestsId == 203

\* "\t\t<id> /* NaarsCarsTests */ = {" "isa = PBXNativeTarget;" ... "};"
TargetEntry(id, name) == Line("target", id, NoName, 0, "", name, 2)

\* a PBXGroup with its children
GroupBlock(id, grp, children) ==
    <<GroupHead(id, grp)>> \o children \o <<ListClose(3), GroupTail(grp)>>

\* files_to_add of add-navigation-files.py, abridged to its first two files:
\* App/MainTabView.swift and Features/.../PendingApprovalView.swift, whose file
\* identifier is the identifier of the NaarsCarsTests target
MainTabView ==
    [name |-> <<"MainTabView", ".swift">>, dir |-> "App", file_id |-> 201, build_id |-> 202]
PendingApprovalView ==
    [name |-> <<"PendingApprovalView", ".swift">>, dir |-> "Features",
     file_id |-> NaarsCarsTestsId, build_id |-> 204]
files_to_add == <<MainTabView, PendingApprovalView>>

\* the detection of add-navigation-files.py, dropped
NavAlreadyInProjectNever(f, content) == FALSE

\* `if file_id in content`
NavAlreadyInProject(f, content) == IdInText(f.file_id, content)

\* the first ");" after position h that line kind tailK follows ("\);[\s\n]+path = App;")
CloseBefore(content, h, tailK) ==
    FirstOf({j \in (h + 1)..(Len(content) - 1) :
                content[j].k = "close" /\ content[j + 1].k = tailK})

\* group(1).rstrip() + '\n' + entry, when the identifier is not in group(1)
NavAppend(content, h, c, item) ==
    IF h = 0 \/ c = 0 THEN content
    ELSE LET r == AppendMissing(SubSeq(content, h, c - 1), content[c].ind, <<item>>, FALSE)
         IN SubSeq(content, 1, h - 1) \o r.text
            \o <<[content[c] EXCEPT !.ind = r.tail]>>
            \o SubSeq(content, c + 1, Len(content))

\* app_group_pattern
NavGroupHead(content) ==
    FirstOf({i \in 1..Len(content) :
                /\ content[i].k = "grp" /\ content[i].id = AppGroupId /\ content[i].grp = "App"
                /\ \E j \in (i + 1)..(Len(content) - 1) :
                      /\ content[j].k = "close"
                      /\ content[j + 1].k = "gtail" /\ content[j + 1].grp = "App"})

\* sources_pattern of add-navigation-files.py
NavPhaseHead(content) ==
    FirstOf({i \in 1..Len(content) :
                /\ content[i].k = "phase" /\ content[i].id = MainSourcesId
                /\ content[i].ph = "Sources"
                /\ CloseBefore(content, i, "ptail") # 0})

\* the body of the loop of add-navigation-files.py for one file
nav_add_file(content, f) ==
    IF NavAlreadyInProject(f, content) THEN content
    ELSE LET c1 == AppendToSection(content, "BeginFR", "EndFR", <<FileRefItem(f, f)>>)
             c2 == AppendToSection(c1, "BeginBF", "EndBF", <<BuildFileItem(f, f)>>)
             g == NavGroupHead(c2)
             c3 == IF f.dir = "App" /\ g # 0
                   THEN NavAppend(c2, g, CloseBefore(c2, g, "gtail"), ChildItem(f, f))
                   ELSE c2
             p == NavPhaseHead(c3)
         IN IF p # 0
            THEN NavAppend(c3, p, CloseBefore(c3, p, "ptail"), MemberItem(f, f))
            ELSE c3

RECURSIVE NavLoop(_, _)
\* `for filepath, (file_id, build_id) in files_to_add.items()`
NavLoop(content, files) ==
    IF files = <<>> THEN content
    ELSE NavLoop(nav_add_file(content, Head(files)), Tail(files))

\* add-navigation-files.py: the loop, then the write
add_navigation_files(content) ==
    [content |-> NavLoop(content, files_to_add), wrote |-> TRUE, ret |-> TRUE]

\* one run of add-navigation-files.py
AddNavigationFiles ==
    /\ Len(hist) < MaxRuns
    /\ LET r == OpenToRead(fs, add_navigation_files(disk))
       IN /\ WriteBack(r)
          /\ orig' = disk
          /\ hist' = Append(hist, Run("add_navigation", NoName, "", 0, 0, r))
    /\ UNCHANGED <<locVars, procs>>

\* the identifiers add_prompts_files.py is written with
PROMPT_MODELS_FILE_ID == 301
PROMPT_MODELS_BUILD_ID == 302
PROMPT_QUEUE_FILE_ID == 303
PROMPT_QUEUE_BUILD_ID == 304
PROMPT_QUEUE_TESTS_FILE_ID == 305
PROMPT_QUEUE_TESTS_BUILD_ID == 306
PROMPTS_GROUP_ID == 307
TEST_PROMPTS_GROUP_ID == 308

PromptModels == <<"PromptModels", ".swift">>
PromptQueue == <<"PromptQueue", ".swift">>
PromptQueueTests == <<"PromptQueue", "Tests", ".swift">>

\* group(1) += entries: the lines go before the first End marker after the Begin marker
AppendAll(content, beginK, endK, lines) ==
    LET b == FirstMarker(content, beginK)
        e == FirstOf({j \in (b + 1)..Len(content) : content[j].k = endK})
    IN IF b = 0 \/ e = 0 THEN content
       ELSE SubSeq(content, 1, e - 1) \o lines \o SubSeq(content, e, Len(content))

\* "<id> /\* <g> \*/ = \{[^}]*children = \(\n" followed by "([^)]+)(\);)"
PromptsGroupHead(content, id, g) ==
    FirstOf({i \in 1..(Len(content) - 1) :
                /\ content[i].k = "grp" /\ content[i].id = id /\ content[i].grp = g
                /\ NonEmptyList(content, i)})

\* the children list of a Features group gets the Prompts group, unless it has it
AddGroupChild(content, id, prompts_id) ==
    LET h == PromptsGroupHead(content, id, "Features")
        c == IF h = 0 THEN 0 ELSE CloseAfter(content, h)
    IN IF h = 0 \/ c = 0 \/ IdInText(prompts_id, SubSeq(content, h + 1, c - 1))
       THEN content
       ELSE InsertAfter(content, h, ChildEntry(prompts_id, <<"Prompts">>, 4))

\* a line that holds "};\n"
EndsObject(l) == l.k \in {"fr", "bf", "gtail", "ptail", "target"}

\* the text as it is, no group created
GroupNotCreated(content, id, g, block) == content

\* "(<id> /\* <g> \*/ = \{.*?\};\n)": the new group goes after the first "};" that
\* follows the head of the group
CreateGroupAfter(content, id, g, block) ==
    LET h == FirstOf({i \in 1..Len(content) :
                         content[i].k = "grp" /\ content[i].id = id /\ content[i].grp = g})
        e == IF h = 0 THEN 0
             ELSE FirstOf({j \in (h + 1)..Len(content) : EndsObject(content[j])})
    IN IF e = 0 THEN content
       ELSE SubSeq(content, 1, e) \o block \o SubSeq(content, e + 1, Len(content))

\* ".*?files = \(\n([^)]+)(\);)" from position s on: the first files list that is
\* not empty, in whatever build phase it is
FirstFilesList(content, s) ==
    IF s = 0 THEN 0
    ELSE FirstOf({i \in s..(Len(content) - 1) :
                     content[i].k = "phase" /\ NonEmptyList(content, i)})

\* sources_pattern of add_prompts_files.py
PromptsSourcesHead(content) ==
    FirstFilesList(content,
        FirstOf({i \in 1..Len(content) :
                    /\ content[i].k = "phase" /\ content[i].id = MainSourcesId
                    /\ content[i].ph = "Sources"}))

\* test_sources_pattern: the first "/* Sources */ = {" after the NaarsCarsTests target
PromptsTestSourcesHead(content) ==
    LET t == FirstOf({i \in 1..Len(content) :
                         /\ content[i].k = "target" /\ content[i].id = NaarsCarsTestsId
                         /\ content[i].grp = "NaarsCarsTests"})
        s == IF t = 0 THEN 0
             ELSE FirstOf({i \in (t + 1)..Len(content) :
                              content[i].k = "phase" /\ content[i].ph = "Sources"})
    IN FirstFilesList(content, s)

\* files = entries + files
PrependMembers(content, h, members) ==
    IF h = 0 THEN content
    ELSE SubSeq(content, 1, h) \o members \o SubSeq(content, h + 1, Len(content))

\* add_prompts_files.py
add_prompts_files(content) ==
    IF NameInContent(PromptModels, content)
    THEN [content |-> content, wrote |-> FALSE, ret |-> FALSE]
    ELSE LET c1 == AppendAll(content, "BeginFR", "EndFR",
                       <<FileRefEntry(PROMPT_MODELS_FILE_ID, PromptModels),
                         FileRefEntry(PROMPT_QUEUE_FILE_ID, PromptQueue),
                         FileRefEntry(PROMPT_QUEUE_TESTS_FILE_ID, PromptQueueTests)>>)
             c2 == AppendAll(c1, "BeginBF", "EndBF",
                       <<BuildFileEntry(PROMPT_MODELS_BUILD_ID, PromptModels,
                                        PROMPT_MODELS_FILE_ID, "Sources"),
                         BuildFileEntry(PROMPT_QUEUE_BUILD_ID, PromptQueue,
                                        PROMPT_QUEUE_FILE_ID, "Sources"),
                         BuildFileEntry(PROMPT_QUEUE_TESTS_BUILD_ID, PromptQueueTests,
                                        PROMPT_QUEUE_TESTS_FILE_ID, "Sources")>>)
             c3 == AddGroupChild(c2, FeaturesGroupId, PROMPTS_GROUP_ID)
             c4 == CreateGroupAfter(c3, ReviewsGroupId, "Reviews",
                       GroupBlock(PROMPTS_GROUP_ID, "Prompts",
                           <<ChildEntry(PROMPT_MODELS_FILE_ID, PromptModels, 4),
                             ChildEntry(PROMPT_QUEUE_FILE_ID, PromptQueue, 4)>>))
             c5 == AddGroupChild(c4, TestFeaturesGroupId, TEST_PROMPTS_GROUP_ID)
             c6 == CreateGroupAfter(c5, TestProfileGroupId, "Profile",
                       GroupBlock(TEST_PROMPTS_GROUP_ID, "Prompts",
                           <<ChildEntry(PROMPT_QUEUE_TESTS_FILE_ID, PromptQueueTests, 4)>>))
             c7 == PrependMembers(c6, PromptsSourcesHead(c6),
                       <<MemberEntry(PROMPT_MODELS_BUILD_ID, PromptModels, "Sources", 4),
                         MemberEntry(PROMPT_QUEUE_BUILD_ID, PromptQueue, "Sources", 4)>>)
             c8 == PrependMembers(c7, PromptsTestSourcesHead(c7),
                       <<MemberEntry(PROMPT_QUEUE_TESTS_BUILD_ID, PromptQueueTests,
                                     "Sources", 4)>>)
         IN [content |-> c8, wrote |-> TRUE, ret |-> TRUE]

\* one run of add_prompts_files.py
AddPromptsFiles ==
    /\ Len(hist) < MaxRuns
    /\ LET r == OpenToRead(fs, add_prompts_files(disk))
       IN /\ WriteBack(r)
          /\ orig' = disk
          /\ hist' = Append(hist, Run("add_prompts", NoName, "", 0, 0, r))
    /\ UNCHANGED <<locVars, procs>>

\* what a manifest of the project holds besides the two sections: the App group,
\* the Features and Reviews groups, the Features and Profile groups of the tests,
\* the NaarsCarsTests target with its Sources phase, the Sources phase of the app
FixedFlags ==
    [bf : BOOLEAN, fr : BOOLEAN, app : BOOLEAN, feat : BOOLEAN, tfeat : BOOLEAN,
     tests : BOOLEAN, src : BOOLEAN]

\* a manifest in the order Xcode writes its sections: PBXBuildFile,
\* PBXFileReference, PBXGroup, PBXNativeTarget, PBXSourcesBuildPhase; regs are the
\* files registered already, listed in the App group and in the app's Sources phase
FixedManifest(f, regs) ==
       (IF f.bf THEN <<Marker("BeginBF")>> \o RegLines("bf", regs, 1) \o <<Marker("EndBF")>>
        ELSE <<>>)
    \o (IF f.fr THEN <<Marker("BeginFR")>> \o RegLines("fr", regs, 1) \o <<Marker("EndFR")>>
        ELSE <<>>)
    \o (IF f.app THEN GroupBlock(AppGroupId, "App", RegLines("child", regs, 1)) ELSE <<>>)
    \o (IF f.feat
        THEN GroupBlock(FeaturesGroupId, "Features",
                        <<ChildEntry(ReviewsGroupId, <<"Reviews">>, 4)>>)
             \o GroupBlock(ReviewsGroupId, "Reviews", <<>>)
        ELSE <<>>)
    \o (IF f.tfeat
        THEN GroupBlock(TestFeaturesGroupId, "Features",
                        <<ChildEntry(TestProfileGroupId, <<"Profile">>, 4)>>)
             \o GroupBlock(TestProfileGroupId, "Profile", <<>>)
        ELSE <<>>)
    \o (IF f.tests THEN <<TargetEntry(NaarsCarsTestsId, "NaarsCarsTests")>> ELSE <<>>)
    \o (IF f.src THEN <<PhaseHead(MainSourcesId, "Sources")>> \o RegLines("mem", regs, 1)
                      \o <<ListClose(3), PhaseTail>>
        ELSE <<>>)
    \o (IF f.tests THEN <<PhaseHead(TestSourcesId, "Sources"), ListClose(3), PhaseTail>>
        ELSE <<>>)

\* manifests the scripts with hard-coded identifiers are run on
InitFixed ==
    /\ \E f \in FixedFlags, names \in SeqUpTo({Swift(<<"A">>)}, MaxFiles - 1) :
          disk = FixedManifest(f, [i \in 1..Len(names) |->
                                      Reg(names[i], "Sources", TRUE, TRUE)])
    /\ orig = disk
    /\ hist = <<>>
    /\ LocIdle

NextFixed == AddNavigationFiles \/ AddPromptsFiles \/ AddFile

SpecFixed == InitFixed /\ [][NextFixed]_vars

-----------------------------------------------------------------------------
(* add_prompts_files.py on manifests whose groups exist one by one *)

\* which of the objects the patterns of add_prompts_files.py look for exist: the two
\* sections, the Features and the Reviews group, the Features and the Profile group of
\* the tests, the NaarsCarsTests target with the two Sources build phases
GroupFlags ==
    [fr : BOOLEAN, feat : BOOLEAN, rev : BOOLEAN, tfeat : BOOLEAN, tprof : BOOLEAN,
     tests : BOOLEAN]

GroupsManifest(f) ==
       (IF f.fr THEN <<Marker("BeginBF"), Marker("EndBF"), Marker("BeginFR"), Marker("EndFR")>>
        ELSE <<>>)
    \o (IF f.feat
        THEN GroupBlock(FeaturesGroupId, "Features",
                        IF f.rev THEN <<ChildEntry(ReviewsGroupId, <<"Reviews">>, 4)>> ELSE <<>>)
        ELSE <<>>)
    \o (IF f.rev THEN GroupBlock(ReviewsGroupId, "Reviews", <<>>) ELSE <<>>)
    \o (IF f.tfeat
        THEN GroupBlock(TestFeaturesGroupId, "Features",
                        IF f.tprof THEN <<ChildEntry(TestProfileGroupId, <<"Profile">>, 4)>>
                        ELSE <<>>)
        ELSE <<>>)
    \o (IF f.tprof THEN GroupBlock(TestProfileGroupId, "Profile", <<>>) ELSE <<>>)
    \o (IF f.tests
        THEN <<TargetEntry(NaarsCarsTestsId, "NaarsCarsTests"),
               PhaseHead(MainSourcesId, "Sources"), ListClose(3), PhaseTail,
               PhaseHead(TestSourcesId, "Sources"), ListClose(3), PhaseTail>>
        ELSE <<>>)

InitPrompts ==
    /\ \E f \in GroupFlags : disk = GroupsManifest(f)
    /\ orig = disk
    /\ hist = <<>>
    /\ LocIdle

NextPrompts == AddPromptsFiles

SpecPrompts == InitPrompts /\ [][NextPrompts]_vars

-----------------------------------------------------------------------------
(* add-models-to-xcode.py *)

\* ACDCBE012F0B784900956D1C, the app's Models group
ModelsGroupId == 108

\* the Models group of the tests, whose identifier the script does not know
TestModelsGroup == ModelsGroupId + 1

\* models and tests, abridged to their first file each
models == <<[name |-> Swift(<<"Profile">>), file_id |-> 401, build_id |-> 402]>>
tests == <<[name |-> Swift(<<"ProfileTests">>), file_id |-> 403, build_id |-> 404]>>

\* the entries of one kind for the files of a table
EntriesFor(kind, table) ==
    [i \in 1..Len(table) |->
        CASE kind = "fr" -> FileRefItem(table[i], table[i])
          [] kind = "bf" -> BuildFileItem(table[i], table[i])
          [] kind = "child" -> ChildItem(table[i], table[i])
          [] kind = "mem" -> MemberItem(table[i], table[i])]

\* group(1) runs from position m to the line before the ");" at position c: the entries
\* whose identifier it lacks are added to it with +=
AppendToSpan(content, m, c, items) ==
    LET r == AppendMissing(SubSeq(content, m, c - 1), content[c].ind, items, TRUE)
    IN  SubSeq(content, 1, m - 1) \o r.text \o <<[content[c] EXCEPT !.ind = r.tail]>>
        \o SubSeq(content, c + 1, Len(content))

\* a line with the comment "/* Models */": the head of a group named Models, or the
\* entry of such a group in its parent's children list
MentionsModels(l) ==
    \/ l.k = "grp" /\ l.grp = "Models"
    \/ l.k = "child" /\ l.name = <<"Models">>

\* "(<from> .*?children = \(.*?)(\);.*?path = Models;)" for a match that starts at
\* position m: the first "children = (" from there on, the first ");" after it, and a
\* "path = Models;" anywhere after that; the position of the ");" or 0
ModelsListClose(content, m) ==
    LET h == IF m = 0 THEN 0
             ELSE FirstOf({i \in m..Len(content) : content[i].k = "grp"})
        c == IF h = 0 THEN 0 ELSE CloseAfter(content, h)
    IN  IF c # 0 /\ \E j \in (c + 1)..Len(content) :
                        content[j].k = "gtail" /\ content[j].grp = "Models"
        THEN c ELSE 0

\* models_group: the match starts at the head of the group ACDCBE01...
models_group(content) ==
    FirstOf({i \in 1..Len(content) :
                content[i].k = "grp" /\ content[i].id = ModelsGroupId
                    /\ content[i].grp = "Models"})

\* test_models_group: the match starts at the first "/* Models */" of the text
test_models_group(content) == FirstOf({i \in 1..Len(content) : MentionsModels(content[i])})

\* the children of a match get the file references of a table
AddChildren(content, m, table) ==
    IF ModelsListClose(content, m) = 0 THEN content
    ELSE AppendToSpan(content, m, ModelsListClose(content, m), EntriesFor("child", table))

\* the script from the read to the write
add_models_to_xcode(content) ==
    LET c1 == AppendToSection(content, "BeginFR", "EndFR",
                              EntriesFor("fr", models) \o EntriesFor("fr", tests))
        c2 == AppendToSection(c1, "BeginBF", "EndBF",
                              EntriesFor("bf", models) \o EntriesFor("bf", tests))
        c3 == AddChildren(c2, models_group(c2), models)
        c4 == AppendToList(c3, BatchPhaseHead(c3, MainSourcesId), EntriesFor("mem", models), TRUE)
        c5 == AppendToList(c4, BatchPhaseHead(c4, TestSourcesId), EntriesFor("mem", tests), TRUE)
        c6 == AddChildren(c5, test_models_group(c5), tests)
    IN  [content |-> c6, wrote |-> TRUE, ret |-> TRUE]

\* one run of add-models-to-xcode.py
AddModelsToXcode ==
    /\ Len(hist) < MaxRuns
    /\ LET r == OpenToRead(fs, add_models_to_xcode(disk))
       IN /\ WriteBack(r)
          /\ orig' = disk
          /\ hist' = Append(hist, Run("add_models", NoName, "", 0, 0, r))
    /\ UNCHANGED <<locVars, procs>>

\* what a manifest holds: the two sections, a group that lists the app's Models group as
\* a child, the app's Models group, the Models group of the tests (before or after the
\* app's, as their identifiers sort), the two Sources build phases
ModelsFlags ==
    [sec : BOOLEAN, parent : BOOLEAN, main : BOOLEAN, test : BOOLEAN, testFirst : BOOLEAN,
     src : BOOLEAN]

ModelsManifest(f) ==
    LET main == IF f.main THEN GroupBlock(ModelsGroupId, "Models", <<>>) ELSE <<>>
        test == IF f.test THEN GroupBlock(TestModelsGroup, "Models", <<>>) ELSE <<>>
    IN (IF f.sec THEN <<Marker("BeginBF"), Marker("EndBF"), Marker("BeginFR"), Marker("EndFR")>>
        ELSE <<>>)
    \o (IF f.parent
        THEN GroupBlock(AppGroupId, "App", <<ChildEntry(ModelsGroupId, <<"Models">>, 4)>>)
        ELSE <<>>)
    \o (IF f.testFirst THEN test \o main ELSE main \o test)
    \o (IF f.src
        THEN <<PhaseHead(MainSourcesId, "Sources"), ListClose(3), PhaseTail,
               PhaseHead(TestSourcesId, "Sources"), ListClose(3), PhaseTail>>
        ELSE <<>>)

InitModels ==
    /\ \E f \in ModelsFlags : disk = ModelsManifest(f)
    /\ orig = disk
    /\ hist = <<>>
    /\ LocIdle

NextModels == AddModelsToXcode

SpecModels == InitModels /\ [][NextModels]_vars

-----------------------------------------------------------------------------
(* add-all-files-to-xcode.py, and the add scripts on a working tree that may lack *)
(* the manifest                                                                  *)

\* base_path / "MISSING-FILES-REPORT.txt"
REPORT_FILE == "MISSING-FILES-REPORT.txt"

\* the Swift files of the working tree: two of the app, one of them with a name
\* Xcode writes in quotes, and one under Scripts
DiskFiles ==
    {[name |-> Swift(<<"A">>), dir |-> "App"],
     [name |-> Swift(<<"A", "+", "B">>), dir |-> "App"],
     [name |-> Swift(<<"B">>), dir |-> "Scripts"]}

\* find_all_swift_files: the files that are not under Scripts
find_all_swift_files(tree) == {f \in tree : f.dir # "Scripts"}

\* 'path = "<name>"': Xcode writes a path in quotes when it holds a character such
\* as "+"; the add scripts of the repository that are run write none in quotes
QuotedPath(l) == l.k = "fr" /\ \E j \in 1..Len(l.name) : l.name[j] = "+"

\* parse_existing_files: the paths of the lines file_ref_pattern matches
parse_existing_files(project_content) ==
    {project_content[i].name :
        i \in {j \in 1..Len(project_content) : QuotedPath(project_content[j])}}

\* main() of add-all-files-to-xcode.py: the files it finds missing and the files of
\* the working tree when it returns; the manifest is read and never written
add_all_files(files, content, tree) ==
    IF PROJECT_FILE \notin files
    THEN Ended("return") @@ [missing |-> {}, fs |-> files]
    ELSE LET swift_files == find_all_swift_files(tree)
             existing_files == parse_existing_files(content)
             missing_files == {f.name : f \in {g \in swift_files : g.name \notin existing_files}}
         IN [content |-> content, wrote |-> FALSE, ret |-> TRUE,
             missing |-> missing_files,
             fs |-> IF missing_files = {} THEN files ELSE files \cup {REPORT_FILE}]

\* one run of add-all-files-to-xcode.py
AddAllFiles ==
    /\ Len(hist) < MaxRuns
    /\ \E tree \in SUBSET DiskFiles :
          LET r == add_all_files(fs, disk, tree)
          IN /\ fs' = r.fs
             /\ disk' = disk
             /\ orig' = disk
             /\ hist' = Append(hist, [missing |-> r.missing]
                                         @@ Run("add_all_files", NoName, "", 0, 0, r))
    /\ UNCHANGED <<locVars, procs>>

\* working trees: without the manifest, or with one that has all sections or all
\* but one and up to MaxFiles - 1 files registered
InitFs ==
    /\ \/ fs = {} /\ disk = <<>>
       \/ /\ fs = {PROJECT_FILE}
          /\ \E f \in BatchFlags,
                names \in SeqUpTo({Swift(<<"B">>), Swift(<<"A", "+", "B">>)}, MaxFiles - 1) :
                disk = Manifest(f, [i \in 1..Len(names) |->
                                       Reg(names[i], "Sources", TRUE, TRUE)], 3)
    /\ orig = disk
    /\ hist = <<>>
    /\ catalog = <<>>
    /\ data = <<>>
    /\ todo = 0
    /\ lpc = "idle"
    /\ procs = <<>>

NextFs == AddFile \/ AddSingleFile \/ AddProfileFiles \/ AddAllFiles

SpecFs == InitFs /\ [][NextFs]_vars

-----------------------------------------------------------------------------
(* The deduplicators on a manifest with the Sources build phases of two targets *)

\* the build files of these manifests: A.swift declared twice, "B(1).swift" and a resource
PhaseBuildFiles ==
    <<BuildFileEntry(BfId(1), Swift(<<"A">>), FrId(1), "Sources"),
      BuildFileEntry(BfId(2), Swift(<<"A">>), FrId(2), "Sources"),
      BuildFileEntry(BfId(3), Swift(<<"B", "(", "1", ")">>), FrId(3), "Sources"),
      BuildFileEntry(BfId(4), Png(<<"A">>), FrId(4), "Resources")>>

\* the entry of a files list for a build file
MemberOf(bf) == MemberEntry(bf.id, bf.name, bf.ph, 4)

\* the PBXBuildFile section, then the main target's Sources phase and the test target's,
\* each listing up to MaxFiles build files, any of them possibly several times
InitPhases ==
    /\ \E main, test \in SeqUpTo({MemberOf(PhaseBuildFiles[i]) : i \in 1..4}, MaxFiles) :
          disk = <<Marker("BeginBF")>> \o PhaseBuildFiles \o <<Marker("EndBF")>>
                 \o <<PhaseHead(MainSourcesId, "Sources")>> \o main
                 \o <<ListClose(3), PhaseTail>>
                 \o <<PhaseHead(TestSourcesId, "Sources")>> \o test
                 \o <<ListClose(3), PhaseTail>>
    /\ orig = disk
    /\ hist = <<>>
    /\ LocIdle

SpecPhases == InitPhases /\ [][NextDedup]_vars

-----------------------------------------------------------------------------
(* The identifier generators: generate_uuid and generate_xcode_id *)

\* a text is the sequence of its characters
HexLower == <<"0", "1", "2", "3", "4", "5", "6", "7", "8", "9", "a", "b", "c", "d", "e", "f">>
HexUpper == <<"0", "1", "2", "3", "4", "5", "6", "7", "8", "9", "A", "B", "C", "D", "E", "F">>

\* the digits the drawn UUIDs are made of
Nibbles == {"0", "9", "a", "f"}

\* uuid.uuid4().hex: 32 lower-case hexadecimal digits, the 13th the version 4 and the
\* 17th the variant 8, 9, a or b; str(uuid.uuid4()) is the same text with four hyphens.
\* The drawn UUIDs repeat two digits over the random positions.
Uuid4 ==
    { [i \in 1..32 |-> IF i = 13 THEN "4" ELSE IF i = 17 THEN v
                       ELSE IF i % 2 = 1 THEN a ELSE b] :
        a \in Nibbles, b \in Nibbles, v \in {"8", "9", "a", "b"} }

\* str.upper() and str.isalpha() on one character of a UUID, and ord()
upper(c) == IF \E i \in 1..16 : HexLower[i] = c
            THEN HexUpper[CHOOSE i \in 1..16 : HexLower[i] = c] ELSE c
isalpha(c) == c \in {"a", "b", "c", "d", "e", "f"}
ord(c) == 87 + (CHOOSE i \in 11..16 : HexLower[i] = c)

\* f'{n:02X}': two upper-case hexadecimal digits, for n below 256
Format02X(n) == <<HexUpper[(n \div 16) + 1], HexUpper[(n % 16) + 1]>>

\* ''.join(parts)
RECURSIVE Join(_)
Join(parts) == IF parts = <<>> THEN <<>> ELSE Head(parts) \o Join(Tail(parts))

\* add_file.py, add-single-file.py: uuid.uuid4().hex[:24].upper()
generate_uuid_token(hex) == [i \in 1..24 |-> upper(hex[i])]

\* add-phase2-, add-profile-, add-all-missing-files-to-xcode.py, add-models-to-xcode.py:
\* the pair hex[i:i+2] of a UUID drawn anew for each i in range(0, 24, 2)
generate_xcode_id_pairs(draws) ==
    Join([k \in 1..12 |-> <<upper(draws[k][2 * k - 1]), upper(draws[k][2 * k])>>])

\* add-all-files-to-xcode.py: the twelve pairs of one UUID's first 24 digits
generate_xcode_id_slices(hex) ==
    LET hex_str == generate_uuid_token(hex)
    IN  Join([k \in 1..12 |-> SubSeq(hex_str, 2 * k - 1, 2 * k)])

\* add-navigation-files.py: a letter among the first 24 characters becomes the two
\* digits of its character code, a digit stays
nav_generate_xcode_id(hex) ==
    Join([i \in 1..24 |-> IF isalpha(hex[i]) THEN Format02X(ord(hex[i])) ELSE <<hex[i]>>])

\* one call of a generator; hist records the generator, its draws and its result
Generated(gen, draws, token) ==
    /\ hist = <<>>
    /\ hist' = <<[op |-> gen, draws |-> draws, token |-> token]>>
    /\ UNCHANGED <<disk, orig, locVars, envVars>>

GenerateUuid ==
    \E u \in Uuid4 : Generated("generate_uuid", <<u>>, generate_uuid_token(u))

GenerateXcodeIdPairs ==
    \E u, w \in Uuid4 :
        LET draws == [k \in 1..12 |-> IF k % 2 = 1 THEN u ELSE w]
        IN  Generated("generate_xcode_id", draws, generate_xcode_id_pairs(draws))

GenerateXcodeIdSlices ==
    \E u \in Uuid4 :
        Generated("add-all-files.generate_xcode_id", <<u>>, generate_xcode_id_slices(u))

NavGenerateXcodeId ==
    \E u \in Uuid4 :
        Generated("add-navigation-files.generate_xcode_id", <<u>>, nav_generate_xcode_id(u))

InitGen ==
    /\ disk = <<>>
    /\ orig = <<>>
    /\ hist = <<>>
    /\ LocIdle

NextGen == GenerateUuid \/ GenerateXcodeIdPairs \/ GenerateXcodeIdSlices \/ NavGenerateXcodeId

SpecGen == InitGen /\ [][NextGen]_vars

-----------------------------------------------------------------------------
(* update_localizations.py *)

\* The catalog is the sequence of its "strings" items in document order; an item
\* is [key, hasLoc, loc]: the string key, whether it has a "localizations" object,
\* and that object, a function from language codes to string units [state, value].
\* Strings are sequences of characters.

Empty == <<>>
\* TRANSLATIONS, abridged to two of its 246 entries
TRANSLATIONS ==
    (<<"C", "a", "n", "c", "e", "l">> :>
        [es |-> <<"Cancelar">>, zhHans |-> <<"quxiao">>, zhHant |-> <<"quxiao">>,
         vi |-> <<"Huy">>, ko |-> <<"chwiso">>])
    @@ (<<"E", "r", "r", "o", "r">> :>
        [es |-> <<"E", "r", "r", "o", "r">>, zhHans |-> <<"cuowu">>, zhHant |-> <<"cuowu">>,
         vi |-> <<"Loi">>, ko |-> <<"oryu">>])

\* the languages list without its last language
languagesShort == <<"es", "zhHans", "zhHant", "vi">>

\* languages = ['es', 'zh-Hans', 'zh-Hant', 'vi', 'ko']
languages == <<"es", "zhHans", "zhHant", "vi", "ko">>

StringUnit(state, value) == [state |-> state, value |-> value]

\* string_key.startswith(c)
StartsWith(string, c) == Len(string) > 0 /\ string[1] = c

\* `if not string_key or string_key.startswith('%') or string_key.startswith('#')`
Skipped(string_key) ==
    string_key = Empty \/ StartsWith(string_key, "%") \/ StartsWith(string_key, "#")

\* the key taken as the English value whatever the entry stores
EnValueKeyOnly(string_key, string_data) == string_key

\* en_value: the stored English value, the key when there is none or it is empty
EnValue(string_key, string_data) ==
    LET stored == IF string_data.hasLoc /\ "en" \in DOMAIN string_data.loc
                  THEN string_data.loc["en"].value ELSE Empty
    IN IF stored = Empty THEN string_key ELSE stored

\* the fallback to the English value forgotten
TranslationNoFallback(en_value, lang) ==
    IF en_value \in DOMAIN TRANSLATIONS THEN TRANSLATIONS[en_value][lang] ELSE Empty

\* translations_dict.get(en_value, {}).get(lang), en_value when that is nothing
Translation(en_value, lang) ==
    LET translation == IF en_value \in DOMAIN TRANSLATIONS
                       THEN TRANSLATIONS[en_value][lang] ELSE Empty
    IN IF translation = Empty THEN en_value ELSE translation

\* the languages of the list, and those of them a localizations object lacks
LangSet == {languages[i] : i \in 1..Len(languages)}

\* add_translations_to_string: the entry as the function leaves it, and its result
add_translations_to_string(string_key, string_data) ==
    IF Skipped(string_key) THEN [data |-> string_data, ret |-> FALSE]
    ELSE LET en_value == EnValue(string_key, string_data)
             loc0 == IF string_data.hasLoc THEN string_data.loc
                     ELSE [l \in {} |-> StringUnit("", Empty)]
             loc1 == IF "en" \in DOMAIN loc0 THEN loc0
                     ELSE loc0 @@ [l \in {"en"} |-> StringUnit("translated", en_value)]
             missing == LangSet \ DOMAIN loc1
             loc2 == loc1 @@ [l \in missing |->
                                 StringUnit("translated", Translation(en_value, l))]
         IN [data |-> [key |-> string_key, hasLoc |-> TRUE, loc |-> loc2], ret |-> TRUE]

\* json.load
LoadCatalog ==
    /\ lpc = "idle"
    /\ data' = catalog
    /\ orig' = catalog
    /\ todo' = 1
    /\ lpc' = "loop"
    /\ UNCHANGED <<disk, hist, catalog, envVars>>

\* one pass of `for key, value in data['strings'].items()`
AugmentEntry ==
    /\ lpc = "loop"
    /\ todo <= Len(data)
    /\ data' = [data EXCEPT ![todo] = add_translations_to_string(@.key, @).data]
    /\ todo' = todo + 1
    /\ UNCHANGED <<disk, orig, hist, catalog, lpc, envVars>>

\* json.dump
WriteCatalog ==
    /\ lpc = "loop"
    /\ todo > Len(data)
    /\ catalog' = data
    /\ lpc' = "done"
    /\ UNCHANGED <<disk, orig, hist, data, todo, envVars>>

\* string keys of the initial catalogs: the empty key, "%@", "#1", a key that the
\* table has, and one it does not have
LocKeys == {Empty, <<"%", "@">>, <<"#", "1">>, <<"C", "a", "n", "c", "e", "l">>, <<"b", "t", "n">>}

\* what an entry of an initial catalog has for a key: no localizations object, an
\* empty one, English only (the key, another string of the table, or empty),
\* English and an empty Spanish unit, or every language
Shapes(key) ==
    LET unit(v) == StringUnit("translated", v)
        other == <<"E", "r", "r", "o", "r">>
    IN {[key |-> key, hasLoc |-> FALSE, loc |-> [l \in {} |-> unit(Empty)]],
        [key |-> key, hasLoc |-> TRUE, loc |-> [l \in {} |-> unit(Empty)]],
        [key |-> key, hasLoc |-> TRUE, loc |-> [l \in {"en"} |-> unit(key)]],
        [key |-> key, hasLoc |-> TRUE, loc |-> [l \in {"en"} |-> unit(other)]],
        [key |-> key, hasLoc |-> TRUE, loc |-> [l \in {"en"} |-> unit(Empty)]],
        [key |-> key, hasLoc |-> TRUE,
         loc |-> [l \in {"en", "es"} |-> IF l = "en" THEN unit(key) ELSE StringUnit("new", Empty)]],
        [key |-> key, hasLoc |-> TRUE, loc |-> [l \in {"en"} \cup LangSet |-> unit(<<l>>)]]}

\* catalogs of up to MaxKeys entries with distinct keys
InitLoc ==
    /\ \E keys \in SeqUpTo(LocKeys, MaxKeys) :
          /\ \A i, j \in 1..Len(keys) : i # j => keys[i] # keys[j]
          /\ \E c \in [1..Len(keys) -> UNION {Shapes(k) : k \in LocKeys}] :
                /\ \A i \in 1..Len(keys) : c[i].key = keys[i]
                /\ catalog = c
    /\ data = <<>>
    /\ todo = 0
    /\ lpc = "idle"
    /\ disk = <<>>
    /\ orig = <<>>
    /\ hist = <<>>
    /\ fs = {"Localizable.xcstrings"}
    /\ procs = <<>>

NextLoc == LoadCatalog \/ AugmentEntry \/ WriteCatalog

SpecLoc == InitLoc /\ [][NextLoc]_vars

-----------------------------------------------------------------------------
(* clean_localizable_catalog.py *)

CATALOG_PATH == "Localizable.xcstrings"
backup == "Localizable.xcstrings.backup"

\* the catalog's "strings" object, in the order of its keys: data.get("strings", {})
StringsOf(d) == IF "strings" \in DOMAIN d THEN d.strings ELSE <<>>

\* the files SOURCE_DIR.rglob(ext) yields for an extension, in the tree's order, without
\* those whose path holds "Localizable.xcstrings" or ".build"
Globbed(tree, ext) ==
    LET scanned(f) == /\ Last(f.path) = ext
                      /\ \A i \in 1..Len(f.path) :
                             f.path[i] \notin {"Localizable.xcstrings", ".build"}
    IN  SelectSeq(tree, scanned)

\* source_contents: the texts of the .swift files, then those of the .plist files
source_contents(tree) ==
    LET files == Globbed(tree, ".swift") \o Globbed(tree, ".plist")
    IN  [i \in 1..Len(files) |-> files[i].text]

\* "\n".join(parts)
RECURSIVE JoinLines(_)
JoinLines(parts) ==
    IF parts = <<>> THEN <<>>
    ELSE IF Len(parts) = 1 THEN Head(parts)
    ELSE Head(parts) \o <<"\n">> \o JoinLines(Tail(parts))

\* main: the catalog with "strings" replaced by the entries whose key is in combined
clean_localizable_catalog(d, tree) ==
    LET strings == StringsOf(d)
        combined == JoinLines(source_contents(tree))
        key_in_combined(e) == Occurs(e.key, combined)
        kept == SelectSeq(strings, key_in_combined)
    IN  [strings |-> kept] @@ d

\* the source files of the working trees
SourceFiles ==
    {[path |-> <<"A", ".swift">>, text |-> <<"a">>],
     [path |-> <<"B", ".swift">>, text |-> <<"b", "c">>],
     [path |-> <<"Info", ".plist">>, text |-> <<"b", "a">>],
     [path |-> <<".build", "/", "D", ".swift">>, text |-> <<"d">>]}

\* one run on a working tree of up to MaxFiles source files: load, scan, filter, write the
\* backup unless there is one, write the catalog
CleanLocalizableCatalog ==
    /\ hist = <<>>
    /\ CATALOG_PATH \in fs
    /\ \E tree \in SeqUpTo(SourceFiles, MaxFiles) :
          /\ \A i, j \in 1..Len(tree) : i # j => tree[i] # tree[j]
          /\ catalog' = clean_localizable_catalog(catalog, tree)
          /\ hist' = <<[op |-> "clean_localizable_catalog", tree |-> tree,
                        scanned |-> source_contents(tree)]>>
    /\ orig' = catalog
    /\ fs' = fs \cup {backup}
    /\ UNCHANGED <<disk, data, todo, lpc, procs>>

\* keys of the initial catalogs: the empty key, one-line keys and a key of two lines
CleanKeys == {Empty, <<"a">>, <<"c">>, <<"a", "b">>, <<"a", "\n", "b">>}

\* catalogs with or without a "strings" object of up to MaxKeys entries with distinct
\* keys, with or without a backup from an earlier run
InitClean ==
    /\ \E keys \in SeqUpTo(CleanKeys, MaxKeys) :
          /\ \A i, j \in 1..Len(keys) : i # j => keys[i] # keys[j]
          /\ \E values \in [1..Len(keys) -> {"x", "y"}] :
                LET strings == [i \in 1..Len(keys) |-> [key |-> keys[i], value |-> values[i]]]
                IN  \/ catalog = [sourceLanguage |-> "en", strings |-> strings]
                    \/ keys = <<>> /\ catalog = [sourceLanguage |-> "en"]
    /\ fs \in {{CATALOG_PATH}, {CATALOG_PATH, backup}}
    /\ data = <<>>
    /\ todo = 0
    /\ lpc = "idle"
    /\ disk = <<>>
    /\ orig = <<>>
    /\ hist = <<>>
    /\ procs = <<>>

NextClean == CleanLocalizableCatalog

SpecClean == InitClean /\ [][NextClean]_vars

-----------------------------------------------------------------------------
(* Properties of add_file.py and add-single-file.py *)

LastRun == Last(hist)
Ran(ops) == hist # <<>> /\ LastRun.op \in ops

Count(content, k) == Cardinality({i \in 1..Len(content) : content[i].k = k})
HasGroup(content, g) == \E i \in 1..Len(content) : content[i].k = "grp" /\ content[i].grp = g
Mentions(content, file_name) == \E i \in 1..Len(content) : content[i].name = file_name
ExactlyOneEach(content, file_name) ==
    /\ Cardinality(FileRefEntries(content, file_name)) = 1
    /\ Cardinality(BuildFileEntries(content, file_name)) = 1

C1_Addable(content, file_name, group_name) ==
    /\ Count(content, "BeginBF") = 1
    /\ Count(content, "BeginFR") = 1
    /\ HasGroup(content, group_name)
    /\ \A i \in 1..Len(content) : ~Occurs(file_name, content[i].name)

SameRunTwice ==
    /\ Len(hist) >= 2
    /\ LastRun.op \in {"add_file", "add_single"}
    /\ hist[Len(hist) - 1].op = LastRun.op
    /\ hist[Len(hist) - 1].file = LastRun.file
    /\ hist[Len(hist) - 1].group = LastRun.group

\* C2: running the add-file operation twice in succession with the same file name
\* is idempotent: the second run leaves the manifest as the first run left it.
C2_SecondRunNoOp == SameRunTwice => disk = orig

C2_Witness ==
    /\ SameRunTwice
    /\ hist[Len(hist) - 1].wrote
    /\ Mentions(disk, LastRun.file)

\* the lines a run of add_file_to_project builds from its arguments
NewLines(h) ==
    {BuildFileEntry(h.bref, h.file, h.fref, "Sources"), FileRefEntry(h.fref, h.file),
     ChildEntry(h.fref, h.file, 4), MemberEntry(h.bref, h.file, "Sources", 4)}

\* C9: after add_file_to_project has added a file, deleting the inserted lines
\* gives back the original manifest: every earlier line is still there, unchanged
\* and in the same order.
C9_OnlyInsertions ==
    (Ran({"add_file"}) /\ LastRun.wrote) => DropLines(disk, NewLines(LastRun)) = orig

C9_Witness ==
    /\ Ran({"add_file"})
    /\ LastRun.wrote
    /\ \E i \in 1..Len(orig) : orig[i].k = "fr" /\ orig[i].name # LastRun.file
    /\ \E i \in 1..Len(orig) : orig[i].k = "child"
    /\ FileRefEntries(disk, LastRun.file) # {}

\* the targets of add_file_to_project a manifest has
HasKind(content, k) == \E i \in 1..Len(content) : content[i].k = k
HasSourcesPhase(content) == FirstSourcesHead(content) # 0
TargetMissing(content, group_name) ==
    \/ ~HasKind(content, "BeginBF")
    \/ ~HasKind(content, "BeginFR")
    \/ ~HasGroup(content, group_name)
    \/ ~HasSourcesPhase(content)

\* the manifest has a line of kind k for the file
EntryFor(content, k, file_name) ==
    \E i \in 1..Len(content) : content[i].k = k /\ content[i].name = file_name

\* a run of add_file_to_project that got past the "already in project" test
AddFileAttempt == Ran({"add_file"}) /\ ~AlreadyInProject(LastRun.file, orig)

\* every mutation whose target the original manifest has is in the manifest on
\* disk, and no other
MutationsOfPresentTargets ==
    /\ HasKind(orig, "BeginBF") <=> EntryFor(disk, "bf", LastRun.file)
    /\ HasKind(orig, "BeginFR") <=> EntryFor(disk, "fr", LastRun.file)
    /\ HasGroup(orig, LastRun.group) <=> EntryFor(disk, "child", LastRun.file)
    /\ HasSourcesPhase(orig) <=> EntryFor(disk, "mem", LastRun.file)

-----------------------------------------------------------------------------
(* Properties of two runs of add_file.py on one manifest *)

BothDone == Len(procs) = 2 /\ \A i \in 1..2 : procs[i].op = "add_file" /\ procs[i].pc = "done"

\* both runs read the manifest before either wrote it back
Overlapped == BothDone /\ \A i \in 1..2 : ~procs[i].after

\* one run ended before the other read the manifest
OneAfterTheOther == BothDone /\ \E i \in 1..2 : procs[i].after

\* a run alone on the initial manifest would add its file
BothAddable == \A i \in 1..2 : C1_Addable(orig, procs[i].file, procs[i].group)

HasEntries(content, file_name) ==
    EntryFor(content, "fr", file_name) /\ EntryFor(content, "bf", file_name)

-----------------------------------------------------------------------------
(* Properties of the deduplicators *)

\* the names with more than one PBXBuildFile entry in a manifest
NamesWithSeveral(content) ==
    {content[i].name : i \in {j \in 1..Len(content) :
        content[j].k = "bf" /\ Cardinality(BuildFileEntries(content, content[j].name)) > 1}}

\* the identifiers of the PBXBuildFile entries of before that are not in after
RemovedIds(before, after) ==
    {before[i].id : i \in {j \in 1..Len(before) :
        before[j].k = "bf" /\ \A m \in 1..Len(after) : after[m] # before[j]}}

\* a list (children or files) of the manifest references the identifier
ListReferences(content, id) ==
    \E i \in 1..Len(content) : content[i].k \in {"child", "mem"} /\ content[i].id = id

NoDanglingListReference ==
    \A id \in RemovedIds(orig, disk) : ~ListReferences(disk, id)

C5_KeepsFirst ==
    Ran({"aggressive_dedup"}) =>
        \A i, j \in 1..Len(orig) :
            (i < j /\ IsSwiftBuildFile(orig[i]) /\ IsSwiftBuildFile(orig[j])
                  /\ orig[i].name = orig[j].name /\ BuildFileEntries(orig, orig[i].name) \subseteq i..Len(orig))
                => /\ \E m \in 1..Len(disk) : disk[m] = orig[i]
                   /\ \A m \in 1..Len(disk) : disk[m].id # orig[j].id

C5_Witness ==
    /\ Ran({"aggressive_dedup"})
    /\ \E i, j \in 1..Len(orig) :
          /\ i < j /\ IsSwiftBuildFile(orig[i]) /\ IsSwiftBuildFile(orig[j])
          /\ orig[i].name = orig[j].name
          /\ \E m \in 1..Len(orig) : orig[m].k = "mem" /\ orig[m].id = orig[j].id
          /\ \E m \in 1..Len(disk) : disk[m] = orig[i]

RECURSIVE IsSubsequence(_, _)
\* a is b with some lines deleted
IsSubsequence(a, b) ==
    IF a = <<>> THEN TRUE
    ELSE IF b = <<>> THEN FALSE
    ELSE IF Head(a) = Head(b) THEN IsSubsequence(Tail(a), Tail(b))
    ELSE IsSubsequence(a, Tail(b))

Deduplicators == {"aggressive_dedup", "deep_clean", "fix_duplicate_sources"}

\* C10: a deduplicator run changes the manifest only by deleting lines: every
\* line it leaves is identical to the original line and in the original order.
C10_OnlyDeletes == Ran(Deduplicators) => IsSubsequence(disk, orig)

\* the file names listed in a Sources build phase's files list
ListedInSources(content) ==
    {content[i].name : i \in {j \in 1..Len(content) :
                                  content[j].k = "mem" /\ content[j].ph = "Sources"}}

\* C20: every file name listed in some Sources build-phase files list before
\* aggressive-dedup runs is still listed in one afterwards, also when the build phase
\* referenced only a non-first duplicate declaration.
C20_StaysInBuild ==
    Ran({"aggressive_dedup"}) => ListedInSources(orig) \subseteq ListedInSources(disk)

-----------------------------------------------------------------------------
(* Properties of the deduplicators on two Sources build phases *)

\* the entries of the files list of the build phase with identifier id: what is between
\* its "files = (" and the next ");", without indentation
FilesList(content, id) ==
    LET h == FirstOf({i \in 1..Len(content) : content[i].k = "phase" /\ content[i].id = id})
        c == CloseAfter(content, h)
        entries == SelectSeq(SubSeq(content, h + 1, c - 1), LAMBDA l : l.k = "mem")
    IN  [i \in 1..Len(entries) |-> [id |-> entries[i].id, name |-> entries[i].name,
                                    ph |-> entries[i].ph]]

SourcesPhases == {MainSourcesId, TestSourcesId}

\* the entry names a Swift source: it has a "<name>.swift in Sources" comment
NamesSwiftSource(e) == e.name # NoName /\ Last(e.name) = ".swift" /\ e.ph = "Sources"

RECURSIVE FirstOfEachName(_, _)
\* the list without the entries whose Swift file an earlier entry of the list names;
\* done is the part of the list already passed
FirstOfEachName(list, done) ==
    IF list = <<>> THEN <<>>
    ELSE LET e == Head(list)
             repeated == /\ NamesSwiftSource(e)
                         /\ \E i \in 1..Len(done) :
                                NamesSwiftSource(done[i]) /\ done[i].name = e.name
         IN  (IF repeated THEN <<>> ELSE <<e>>) \o FirstOfEachName(Tail(list), Append(done, e))

HasParen(list) ==
    \E i \in 1..Len(list) : \E t \in 1..Len(list[i].name) : list[i].name[t] = ")"

C22_OnlyRepeatsWithinList ==
    Ran({"deep_clean"}) =>
        \A id \in SourcesPhases :
            FilesList(disk, id) = FirstOfEachName(FilesList(orig, id), <<>>)

-----------------------------------------------------------------------------
(* Properties of a deduplicator run that may stop *)

LinesIn(content) == {content[i] : i \in 1..Len(content)}

\* the lines the run takes out of the manifest it read
RemovedLines == LinesIn(orig) \ LinesIn(procs[1].new_content)

\* one of the lines the run takes out is gone from the disk, another is still there
PartiallyDeduplicated ==
    \E gone, kept \in RemovedLines : gone \notin LinesIn(disk) /\ kept \in LinesIn(disk)

\* the run stopped while it was writing
CrashedInWrite == procs # <<>> /\ procs[1].pc = "crashed" /\ procs[1].wrote /\ disk # orig

-----------------------------------------------------------------------------
(* Properties of the batch add scripts *)

BatchScripts == {"add_phase2", "add_profile", "add_all_missing"}

\* the last two runs were the same batch script
SameBatchTwice ==
    /\ Len(hist) >= 2
    /\ LastRun.op \in BatchScripts
    /\ hist[Len(hist) - 1].op = LastRun.op

\* C3: a batch add script run again on the manifest its own first run produced
\* adds no entry: no line is added to the manifest.
C3_RerunAddsNothing == SameBatchTwice => Len(disk) = Len(orig)

-----------------------------------------------------------------------------
(* Properties of the scripts with hard-coded identifiers *)

NavFiles == {files_to_add[i] : i \in 1..Len(files_to_add)}

\* the last run found, in the manifest it read, a file it was to add
DetectedPresent ==
    \/ Ran({"add_file"}) /\ AlreadyInProject(LastRun.file, orig)
    \/ Ran({"add_prompts"}) /\ NameInContent(PromptModels, orig)
    \/ Ran({"add_navigation"}) /\ \E f \in NavFiles : IdInText(f.file_id, orig)

\* the lines of a manifest that name the file or one of its two identifiers
LinesOf(content, f) ==
    SelectSeq(content, LAMBDA l : l.name = f.name \/ l.id \in {f.file_id, f.build_id}
                                     \/ l.ref \in {f.file_id, f.build_id})

IsDeclaration(l) == l.k \in {"fr", "bf", "grp", "phase", "target"}
IsListMember(l) == l.k \in {"child", "mem"}

\* no two declarations have the same identifier, and no two list members of a kind
DistinctIds(content) ==
    \A i, j \in 1..Len(content) :
        (i < j /\ \/ IsDeclaration(content[i]) /\ IsDeclaration(content[j])
                  \/ IsListMember(content[i]) /\ content[i].k = content[j].k)
            => content[i].id # content[j].id

\* C14: after any sequence of add-script runs on a manifest whose entry identifiers
\* are pairwise distinct, the entry identifiers are still pairwise distinct.
C14_IdentifiersDistinct == DistinctIds(disk)

-----------------------------------------------------------------------------
(* Properties of the add scripts on a working tree *)

\* C13: when the manifest file does not exist, a run of an add script reports it
\* (a message or the FileNotFoundError of open) and ends without creating or
\* modifying any file.
C13_MissingManifest ==
    [][PROJECT_FILE \notin fs =>
           /\ fs' = fs
           /\ disk' = disk
           /\ Last(hist').exit \in {"FileNotFoundError", "exit(1)", "return"}]_vars

C13_Witness ==
    /\ fs = {}
    /\ Len(hist) = 2
    /\ hist[1].op = "add_file" /\ hist[1].exit = "FileNotFoundError"
    /\ hist[2].op = "add_profile" /\ hist[2].exit = "exit(1)"

\* C16: when Swift files of the working tree are missing from the project, a run
\* of add-all-files-to-xcode.py leaves a manifest that has a file reference and a
\* build file for every one of them.
C16_MissingFilesAdded ==
    (Ran({"add_all_files"}) /\ LastRun.exit = "ok") =>
        \A file_name \in LastRun.missing :
            EntryFor(disk, "fr", file_name) /\ EntryFor(disk, "bf", file_name)

-----------------------------------------------------------------------------
(* Referential completeness of what the add-file scripts insert *)

\* the lines of the manifest on disk that the last run put there
Inserted == {l \in LinesIn(disk) : l \notin LinesIn(orig)}

\* the manifest declares an object of kind k with identifier id
Declares(content, k, id) == \E i \in 1..Len(content) : content[i].k = k /\ content[i].id = id

\* every inserted reference has its declaration
Complete(lines) ==
    \A l \in lines :
        /\ l.k = "bf" => Declares(disk, "fr", l.ref)
        /\ l.k = "child" => Declares(disk, "fr", l.id)
        /\ l.k = "mem" => Declares(disk, "bf", l.id)

\* C23 (as stated): after an add-file run has written the manifest, the entries it
\* inserted are referentially complete: the inserted PBXBuildFile entry's fileRef has a
\* PBXFileReference entry, and every identifier inserted into a group's children list or
\* a Sources files list has its declaration entry.
C23_InsertedEntriesComplete ==
    (Ran({"add_file", "add_single"}) /\ LastRun.wrote) => Complete(Inserted)

\* C23 (as the scripts behave): the entries an add-file run wrote are referentially
\* complete when the manifest it read holds the PBXBuildFile and the PBXFileReference
\* section marker.
C23_CompleteWhenSectionsExist ==
    (Ran({"add_file", "add_single"}) /\ LastRun.wrote
        /\ Count(orig, "BeginBF") > 0 /\ Count(orig, "BeginFR") > 0) => Complete(Inserted)

\* a run that wrote a declaration of each kind, a group child and a files list member
C23_Witness ==
    /\ Ran({"add_file", "add_single"}) /\ LastRun.wrote
    /\ Count(orig, "BeginBF") > 0 /\ Count(orig, "BeginFR") > 0
    /\ \A k \in {"bf", "fr", "child", "mem"} : \E l \in Inserted : l.k = k

-----------------------------------------------------------------------------
(* Properties of add_prompts_files.py *)

\* the head of the list that the line at position i is an entry of
ListHead(content, i) ==
    LET heads == {h \in 1..(i - 1) : content[h].k \in {"grp", "phase"}}
    IN  IF heads = {} THEN 0 ELSE CHOOSE h \in heads : \A g \in heads : g <= h

\* the identifier is an entry of the list of the object (group or build phase) owner
ListedIn(content, owner, id) ==
    \E i \in 1..Len(content) :
        /\ content[i].k \in {"child", "mem"} /\ content[i].id = id
        /\ ListHead(content, i) # 0 /\ content[ListHead(content, i)].id = owner

\* a Features group and the Prompts group the script puts under it
PromptsGroups == {<<FeaturesGroupId, PROMPTS_GROUP_ID>>, <<TestFeaturesGroupId, TEST_PROMPTS_GROUP_ID>>}

AnchorOf(id) == IF id = FeaturesGroupId THEN ReviewsGroupId ELSE TestProfileGroupId

C25_OnlyInTestSources ==
    (Ran({"add_prompts"}) /\ LastRun.wrote) =>
        \A i \in 1..Len(disk) :
            (disk[i].k = "mem" /\ disk[i].id = PROMPT_QUEUE_TESTS_BUILD_ID)
                => ListHead(disk, i) # 0 /\ disk[ListHead(disk, i)].id = TestSourcesId

-----------------------------------------------------------------------------
(* Properties of add-models-to-xcode.py *)

\* C26: add-models-to-xcode.py adds the test file references only to the children list
\* of the test Models group, never to the app's Models group and never to a group
\* whose path is not Models; if no test Models group exists it adds them to no group.
C26_TestFilesOnlyInTestModels ==
    Ran({"add_models"}) =>
        \A i \in 1..Len(disk) :
            (disk[i].k = "child" /\ \E t \in 1..Len(tests) : disk[i].id = tests[t].file_id)
                => ListHead(disk, i) # 0 /\ disk[ListHead(disk, i)].id = TestModelsGroup

-----------------------------------------------------------------------------
(* Properties of the identifier generators *)

\* a token of exactly 24 characters, each one of 0-9 or A-F
Is24UpperHex(token) ==
    /\ Len(token) = 24
    /\ \A i \in 1..Len(token) : \E j \in 1..16 : HexUpper[j] = token[i]

\* C15: every identifier generator returns, for every UUID it draws, a token of exactly
\* 24 characters, each of them one of 0-9 or A-F.
C15_TokenShape == \A i \in 1..Len(hist) : Is24UpperHex(hist[i].token)

-----------------------------------------------------------------------------
(* Properties of clean_localizable_catalog.py *)

\* the key occurs as a substring of some scanned source file
InSomeSource(e) == \E i \in 1..Len(hist[1].scanned) : Occurs(e.key, hist[1].scanned[i])

\* C17: after clean_localizable_catalog runs, the catalog's strings are exactly the
\* original keys that occur as a substring of some scanned .swift or .plist file, each
\* with its original value; every other key is removed and nothing outside "strings"
\* changes.
C17_KeepsReferencedKeys ==
    Ran({"clean_localizable_catalog"}) =>
        /\ StringsOf(catalog) = SelectSeq(StringsOf(orig), InSomeSource)
        /\ DOMAIN catalog \ {"strings"} = DOMAIN orig \ {"strings"}
        /\ \A k \in DOMAIN orig \ {"strings"} : catalog[k] = orig[k]

-----------------------------------------------------------------------------
(* Properties of update_localizations.py *)

RequiredLanguages == {"es", "zhHans", "zhHant", "vi", "ko"}

Augmented == lpc = "done"

\* the entry had no localization for the language when the catalog was read
Lacked(i, lang) == ~orig[i].hasLoc \/ lang \notin DOMAIN orig[i].loc

HasUnit(i, lang) == catalog[i].hasLoc /\ lang \in DOMAIN catalog[i].loc

Processed(key) == key # Empty /\ key[1] \notin {"%", "#"}

StoredEn(e) == IF e.hasLoc /\ "en" \in DOMAIN e.loc THEN e.loc["en"].value ELSE e.key

\* the table's translation of a string, the string itself when the table has none
TableOr(string, lang) ==
    IF string \in DOMAIN TRANSLATIONS THEN TRANSLATIONS[string][lang] ELSE string

SourceValue(e) == IF StoredEn(e) = Empty THEN e.key ELSE StoredEn(e)

Added(i, lang) == Lacked(i, lang) /\ HasUnit(i, lang)

\* C8 as stated: a localization the augmenter adds is looked up in the table by
\* the entry's string key; when the key is not in the table the entry receives
\* the source-language value.
C8_LookupByKey ==
    Augmented =>
        \A i \in 1..Len(catalog), lang \in RequiredLanguages :
            Added(i, lang) =>
                catalog[i].loc[lang].value =
                    IF catalog[i].key \in DOMAIN TRANSLATIONS
                    THEN TRANSLATIONS[catalog[i].key][lang]
                    ELSE SourceValue(orig[i])

\* C8 amended: a localization the augmenter adds is looked up in the table by
\* exact match on the entry's English value (the key when no non-empty English
\* value is stored), not on its key; when that value is not in the table the entry
\* receives it unchanged.
C8_LookupByEnValue ==
    Augmented =>
        \A i \in 1..Len(catalog), lang \in RequiredLanguages :
            Added(i, lang) =>
                /\ SourceValue(orig[i]) \in DOMAIN TRANSLATIONS
                       => catalog[i].loc[lang].value = TRANSLATIONS[SourceValue(orig[i])][lang]
                /\ SourceValue(orig[i]) \notin DOMAIN TRANSLATIONS
                       => catalog[i].loc[lang].value = SourceValue(orig[i])

C8_Witness ==
    /\ Augmented
    /\ \E i \in 1..Len(catalog), lang \in RequiredLanguages :
          /\ Added(i, lang)
          /\ catalog[i].key \notin DOMAIN TRANSLATIONS
          /\ SourceValue(orig[i]) \in DOMAIN TRANSLATIONS
          /\ catalog[i].loc[lang].value = TRANSLATIONS[SourceValue(orig[i])][lang]

=============================================================================
